---- MODULE Spec2Model ----
(***************************************************************************)
(* The validation checker of the repository: checkFile applies the six     *)
(* detectors of VALIDATION_ISSUES to the text of one file, and             *)
(* runValidationCheckerTool selects the files of a target, checks them     *)
(* concurrently and aggregates the per-file results into one report.       *)
(*                                                                         *)
(* Texts are strings, read character by character, so that the regular     *)
(* expressions, String.includes, split and trim are computed as the        *)
(* JavaScript runtime computes them.                                       *)
(***************************************************************************)
EXTENDS Integers, Sequences, FiniteSets, TLC

\* ------------------------------------------------------------------------
\* Characters and the String methods the code calls

UpperCase == "ABCDEFGHIJKLMNOPQRSTUVWXYZ"
LowerCase == "abcdefghijklmnopqrstuvwxyz"
Digits == "0123456789"

\* the character of s at position i (1-based)
Ch(s, i) == SubSeq(s, i, i)

Chars(s) == {Ch(s, i) : i \in 1..Len(s)}

\* \w of a regular expression
WordChars == Chars(UpperCase) \cup Chars(LowerCase) \cup Chars(Digits) \cup {"_"}

\* \s of a regular expression, and what String.trim removes
WhiteSpace == {" ", "\t", "\n", "\r"}

\* the characters "." of a regular expression does not match
LineTerminators == {"\n", "\r"}

\* the case folding of the i flag
Lower(c) ==
  IF c \in Chars(UpperCase)
    THEN Ch(LowerCase, CHOOSE i \in 1..Len(UpperCase) : Ch(UpperCase, i) = c)
    ELSE c

Min(S) == CHOOSE m \in S : \A n \in S : m <= n

\* the literal w stands in s at position i (1-based)
At(s, i, w) ==
  /\ i >= 1
  /\ i + Len(w) - 1 <= Len(s)
  /\ SubSeq(s, i, i + Len(w) - 1) = w

\* the same under the i flag
AtIgnoreCase(s, i, w) ==
  /\ i >= 1
  /\ i + Len(w) - 1 <= Len(s)
  /\ \A k \in 1..Len(w) : Lower(Ch(s, i + k - 1)) = Lower(Ch(w, k))

IsWordAt(s, i) == i >= 1 /\ i <= Len(s) /\ Ch(s, i) \in WordChars

\* \b between the characters i-1 and i of s
WordBoundary(s, i) == IsWordAt(s, i - 1) # IsWordAt(s, i)

\* the position after a greedy \s* that starts at i
SkipSpace(s, i) ==
  Min({j \in i..(Len(s) + 1) : j > Len(s) \/ Ch(s, j) \notin WhiteSpace})

\* String.prototype.includes
includes(s, w) == \E i \in 1..(Len(s) - Len(w) + 1) : At(s, i, w)

\* String.prototype.split('\n')
RECURSIVE split(_)
split(s) ==
  IF \A i \in 1..Len(s) : Ch(s, i) # "\n"
    THEN <<s>>
    ELSE LET n == Min({i \in 1..Len(s) : Ch(s, i) = "\n"})
         IN  <<SubSeq(s, 1, n - 1)>> \o split(SubSeq(s, n + 1, Len(s)))

\* String.prototype.trim
trim(s) ==
  LET keep == {i \in 1..Len(s) : Ch(s, i) \notin WhiteSpace}
  IN  IF keep = {} THEN ""
      ELSE SubSeq(s, Min(keep), CHOOSE m \in keep : \A n \in keep : n <= m)

\* Array.prototype.findIndex over the lines, 0-based, -1 when no line has w
findIndex(lines, w) ==
  LET hits == {i \in 1..Len(lines) : includes(lines[i], w)}
  IN  IF hits = {} THEN -1 ELSE Min(hits) - 1

\* ------------------------------------------------------------------------
\* The elements of the array String.prototype.match returns for a pattern
\* without the g flag: the matched text, then the text of each capture
\* group, undefined for a group that took no part in the match.

Defined(t) == [defined |-> TRUE, text |-> t]
undefined == [defined |-> FALSE, text |-> ""]

\* what a value becomes where the runtime needs a string: String(undefined)
StringOf(m) == IF m.defined THEN m.text ELSE "undefined"

\* the elements of seq at the positions of the set idx, in their order
pick(seq, idx) ==
  [k \in 1..Cardinality(idx) |->
     seq[CHOOSE i \in idx : Cardinality({j \in idx : j <= i}) = k]]

\* ------------------------------------------------------------------------
\* VALIDATION_ISSUES[0].pattern:
\*   /\b(email|...|url)\b.*?(validate|...|test)/i
FieldNames == <<"email", "password", "phone", "name", "address",
                "zip", "postal", "code", "username", "url">>
ValidationWords == <<"validate", "validation", "valid", "invalid",
                     "pattern", "regex", "match", "test">>

\* .*? may run from position from up to (not including) position j
DotsBetween(s, from, j) == \A k \in from..(j - 1) : Ch(s, k) \notin LineTerminators

\* the alternatives of the second group that stand at j; of several the
\* one written first is taken
WordAltsAt(s, j) ==
  {k \in 1..Len(ValidationWords) : AtIgnoreCase(s, j, ValidationWords[k])}

FieldWordEnds(s, from) ==
  {j \in from..(Len(s) + 1) : DotsBetween(s, from, j) /\ WordAltsAt(s, j) # {}}

FieldAltAt(s, i, a) ==
  /\ WordBoundary(s, i)
  /\ AtIgnoreCase(s, i, FieldNames[a])
  /\ WordBoundary(s, i + Len(FieldNames[a]))
  /\ FieldWordEnds(s, i + Len(FieldNames[a])) # {}

FieldAltsAt(s, i) == {a \in 1..Len(FieldNames) : FieldAltAt(s, i, a)}

\* the match that starts at i, whose first group ends before e and whose
\* second group runs from j to last
FieldMatch(s, i, e, j, last) ==
  << Defined(SubSeq(s, i, last)),
     Defined(SubSeq(s, i, e - 1)),
     Defined(SubSeq(s, j, last)) >>

\* .*? is lazy: the second group stands at the first position it can
FieldMatchUpTo(s, i, e, j) ==
  FieldMatch(s, i, e, j, j + Len(ValidationWords[Min(WordAltsAt(s, j))]) - 1)

FieldMatchFrom(s, i, e) == FieldMatchUpTo(s, i, e, Min(FieldWordEnds(s, e)))

FieldMatchAt(s, i) ==
  FieldMatchFrom(s, i, i + Len(FieldNames[Min(FieldAltsAt(s, i))]))

FieldStarts(s) == {i \in 1..Len(s) : FieldAltsAt(s, i) # {}}

ExecFieldPattern(s) ==
  IF FieldStarts(s) = {} THEN <<>> ELSE FieldMatchAt(s, Min(FieldStarts(s)))

\* ------------------------------------------------------------------------
\* VALIDATION_ISSUES[1].pattern and [2].pattern:
\*   /\.test\(\s*\/[^/]+\/\s*\)/  and  /\.match\(\s*\/[^/]+\/\s*\)/
\* The end (exclusive) of a match of  call \s* / [^/]+ / \s* )  at i, or 0
SlashesAfter(s, open) == {k \in (open + 1)..Len(s) : Ch(s, k) = "/"}

\* [^/]+ between the slashes at open and close, then \s* and ")" at paren
RegexLiteralEnd(s, open, close, paren) ==
  IF close > open + 1 /\ At(s, paren, ")") THEN paren + 1 ELSE 0

RegexArgumentEnd(s, open, close) ==
  RegexLiteralEnd(s, open, close, SkipSpace(s, close + 1))

RegexOpenEnd(s, open) ==
  IF ~At(s, open, "/") \/ SlashesAfter(s, open) = {} THEN 0
  ELSE RegexArgumentEnd(s, open, Min(SlashesAfter(s, open)))

RegexCallEnd(s, i, call) ==
  IF ~At(s, i, call) THEN 0 ELSE RegexOpenEnd(s, SkipSpace(s, i + Len(call)))

RegexCallStarts(s, call) == {i \in 1..Len(s) : RegexCallEnd(s, i, call) > 0}

RegexCallAt(s, i, call) ==
  << Defined(SubSeq(s, i, RegexCallEnd(s, i, call) - 1)) >>

ExecRegexCall(s, call) ==
  IF RegexCallStarts(s, call) = {} THEN <<>>
  ELSE RegexCallAt(s, Min(RegexCallStarts(s, call)), call)

\* ------------------------------------------------------------------------
\* VALIDATION_ISSUES[3].pattern:  /new RegExp\(/
ExecNewRegExp(s) ==
  IF includes(s, "new RegExp(") THEN << Defined("new RegExp(") >> ELSE <<>>

\* ------------------------------------------------------------------------
\* VALIDATION_ISSUES[4].pattern:
\*   /\.(substring|substr|slice|trim|replace|replaceAll|padStart|padEnd|toLowerCase|toUpperCase)\(/
StringMethods == <<"substring", "substr", "slice", "trim", "replace",
                   "replaceAll", "padStart", "padEnd", "toLowerCase",
                   "toUpperCase">>

StringMethodAt(s, i, a) == At(s, i, "." \o StringMethods[a] \o "(")

StringMethodsAt(s, i) == {a \in 1..Len(StringMethods) : StringMethodAt(s, i, a)}

StringMethodStarts(s) == {i \in 1..Len(s) : StringMethodsAt(s, i) # {}}

\* the match of alternative a: the whole match, then the group
StringMethodMatch(a) ==
  << Defined("." \o StringMethods[a] \o "("), Defined(StringMethods[a]) >>

ExecStringMethod(s) ==
  IF StringMethodStarts(s) = {} THEN <<>>
  ELSE StringMethodMatch(Min(StringMethodsAt(s, Min(StringMethodStarts(s)))))

\* ------------------------------------------------------------------------
\* VALIDATION_ISSUES[5].pattern:
\*   /\b(validation|validator|validate|validateField|isValid)\s*=\s*function|=>\s*{/
\* The alternation is at the top level: either a validation name assigned a
\* function (one capture group), or an arrow followed by a brace (the group
\* takes no part).
ValidatorNames == <<"validation", "validator", "validate",
                    "validateField", "isValid">>

\* the end (exclusive) of  name \s* = \s* function  at i, or 0
FunctionKeywordEnd(s, fn) ==
  IF At(s, fn, "function") THEN fn + Len("function") ELSE 0

AssignmentEnd(s, eq) ==
  IF At(s, eq, "=") THEN FunctionKeywordEnd(s, SkipSpace(s, eq + 1)) ELSE 0

AssignedFunctionEnd(s, i, a) ==
  IF ~(WordBoundary(s, i) /\ At(s, i, ValidatorNames[a])) THEN 0
  ELSE AssignmentEnd(s, SkipSpace(s, i + Len(ValidatorNames[a])))

BraceEnd(s, brace) == IF At(s, brace, "{") THEN brace + 1 ELSE 0

\* the end (exclusive) of  => \s* {  at i, or 0
ArrowBraceEnd(s, i) ==
  IF ~At(s, i, "=>") THEN 0 ELSE BraceEnd(s, SkipSpace(s, i + 2))

AssignedAltsAt(s, i) ==
  {a \in 1..Len(ValidatorNames) : AssignedFunctionEnd(s, i, a) > 0}

CustomValidatorStarts(s) ==
  {i \in 1..Len(s) : AssignedAltsAt(s, i) # {} \/ ArrowBraceEnd(s, i) > 0}

AssignedFunctionMatch(s, i, a) ==
  << Defined(SubSeq(s, i, AssignedFunctionEnd(s, i, a) - 1)),
     Defined(ValidatorNames[a]) >>

\* at one position the first alternative is tried before the second
CustomValidatorAt(s, i) ==
  IF AssignedAltsAt(s, i) # {}
    THEN AssignedFunctionMatch(s, i, Min(AssignedAltsAt(s, i)))
    ELSE << Defined(SubSeq(s, i, ArrowBraceEnd(s, i) - 1)), undefined >>

ExecCustomValidator(s) ==
  IF CustomValidatorStarts(s) = {} THEN <<>>
  ELSE CustomValidatorAt(s, Min(CustomValidatorStarts(s)))

\* ------------------------------------------------------------------------
\* The detectors, in the order the code lists them.  pattern is the text
\* RegExp.prototype.toString gives, which is also what an Issue carries.
PatternField == "/\\b(email|password|phone|name|address|zip|postal|code|username|url)\\b.*?(validate|validation|valid|invalid|pattern|regex|match|test)/i"
PatternTest == "/\\.test\\(\\s*\\/[^/]+\\/\\s*\\)/"
PatternMatch == "/\\.match\\(\\s*\\/[^/]+\\/\\s*\\)/"
PatternNewRegExp == "/new RegExp\\(/"
PatternStringMethod == "/\\.(substring|substr|slice|trim|replace|replaceAll|padStart|padEnd|toLowerCase|toUpperCase)\\(/"
PatternCustomValidator == "/\\b(validation|validator|validate|validateField|isValid)\\s*=\\s*function|=>\\s*{/"

VALIDATION_ISSUES ==
  << [pattern |-> PatternField,
      message |-> "Contains field validation that might need ValidationService",
      severity |-> "medium"],
     [pattern |-> PatternTest,
      message |-> "Using regex test() directly instead of ValidationService",
      severity |-> "high"],
     [pattern |-> PatternMatch,
      message |-> "Using regex match() directly instead of ValidationService",
      severity |-> "high"],
     [pattern |-> PatternNewRegExp,
      message |-> "Creating RegExp directly instead of using ValidationService",
      severity |-> "high"],
     [pattern |-> PatternStringMethod,
      message |-> "String manipulation that might need FormatterService",
      severity |-> "low"],
     [pattern |-> PatternCustomValidator,
      message |-> "Custom validation function that might duplicate ValidationService functionality",
      severity |-> "medium"] >>

\* content.match(issue.pattern): the array of the first match, <<>> for null
match(content, pattern) ==
  CASE pattern = PatternField -> ExecFieldPattern(content)
    [] pattern = PatternTest -> ExecRegexCall(content, ".test(")
    [] pattern = PatternMatch -> ExecRegexCall(content, ".match(")
    [] pattern = PatternNewRegExp -> ExecNewRegExp(content)
    [] pattern = PatternStringMethod -> ExecStringMethod(content)
    [] pattern = PatternCustomValidator -> ExecCustomValidator(content)

\* ------------------------------------------------------------------------
\* getSuggestion.  m.includes raises a TypeError when m is undefined.
SuggestionThrows(m) == ~m.defined

TypeErrorMessage == "Cannot read properties of undefined (reading 'includes')"

\* a suggestion that looks at the services the file uses and not at the match
suggestByService(m, issue, usesValidationService, usesFormatterService) ==
  "Consider using the appropriate method from "
    \o (IF usesValidationService THEN "" ELSE "ValidationService or ")
    \o (IF usesFormatterService THEN "" ELSE "FormatterService ")
    \o "instead"

\* a suggestion that looks for the string methods before the regex calls
suggestFormatterFirst(m, issue, usesValidationService, usesFormatterService) ==
  IF includes(m.text, "trim") \/ includes(m.text, "replace")
       \/ includes(m.text, "substring")
    THEN "Consider using FormatterService.formatValue() for consistent string formatting"
    ELSE suggestByService(m, issue, usesValidationService, usesFormatterService)

getSuggestion(m, issue, usesValidationService, usesFormatterService) ==
  IF includes(m.text, ".test(")
    THEN "Use ValidationService.createValidator() or a specific validator from @/lib/validation instead of regex tests"
  ELSE IF includes(m.text, ".match(")
    THEN "Use ValidationService.createValidator() or a specific validator from @/lib/validation instead of regex matching"
  ELSE IF includes(m.text, "trim") \/ includes(m.text, "replace")
            \/ includes(m.text, "substring")
    THEN "Consider using FormatterService.formatValue() for consistent string formatting"
  ELSE "Consider using the appropriate method from "
         \o (IF usesValidationService THEN "" ELSE "ValidationService or ")
         \o (IF usesFormatterService THEN "" ELSE "FormatterService ")
         \o "instead"

\* ------------------------------------------------------------------------
\* checkFile.  file is what the file system holds at filePath: readable
\* says whether fs.promises.readFile succeeds, error is the message of the
\* error it raises otherwise.

\* the pairs (detector, element of its match array) of one detector
EntriesOf(d, matches) ==
  [k \in 1..Len(matches) |-> [issue |-> d, match |-> matches[k]]]

\* the matches of a pattern in each line of a list, one line after the other
RECURSIVE LineMatches(_, _)
LineMatches(lines, pattern) ==
  IF lines = <<>> THEN <<>>
  ELSE match(Head(lines), pattern) \o LineMatches(Tail(lines), pattern)

\* entries of every line that a detector matches, not of the first match
RECURSIVE MatchEntriesByLine(_, _)
MatchEntriesByLine(content, d) ==
  IF d > Len(VALIDATION_ISSUES) THEN <<>>
  ELSE EntriesOf(d, LineMatches(split(content), VALIDATION_ISSUES[d].pattern))
         \o MatchEntriesByLine(content, d + 1)

\* the same for the detectors from d on, in the order of the loops
RECURSIVE MatchEntries(_, _)
MatchEntries(content, d) ==
  IF d > Len(VALIDATION_ISSUES) THEN <<>>
  ELSE EntriesOf(d, match(content, VALIDATION_ISSUES[d].pattern))
         \o MatchEntries(content, d + 1)

\* the index of the last line that has the match, not of the first
lastLineIndexOf(content, m) ==
  IF findIndex(split(content), StringOf(m)) < 0 THEN -1
  ELSE (CHOOSE i \in 1..Len(split(content)) :
          /\ includes(split(content)[i], StringOf(m))
          /\ \A j \in (i + 1)..Len(split(content)) :
               ~includes(split(content)[j], StringOf(m))) - 1

\* lines.findIndex(line => line.includes(match)), 0-based
lineIndexOf(content, m) == findIndex(split(content), StringOf(m))

\* the entries a line is found for
FoundEntries(content, entries) ==
  pick(entries, {k \in 1..Len(entries) : lineIndexOf(content, entries[k].match) >= 0})

\* the entries for which the code pushes an Issue
PushedEntries(content) == FoundEntries(content, MatchEntries(content, 1))

Issue(content, issue, m, lineIndex, usesValidationService, usesFormatterService) ==
  [pattern |-> issue.pattern,
   message |-> issue.message,
   severity |-> issue.severity,
   line |-> lineIndex + 1,
   content |-> trim(split(content)[lineIndex + 1]),
   suggestion |-> getSuggestion(m, issue, usesValidationService,
                                usesFormatterService)]

IssueOf(content, e, usesValidationService, usesFormatterService) ==
  Issue(content, VALIDATION_ISSUES[e.issue], e.match,
        lineIndexOf(content, e.match),
        usesValidationService, usesFormatterService)

\* a catch branch that reported the failure as a finding of the file
ErrorAsIssue(filePath, message) ==
  [path |-> filePath,
   error |-> "Error checking file: " \o message,
   issueCount |-> 1,
   issues |-> << [pattern |-> "", message |-> message, severity |-> "high",
                  line |-> 0, content |-> "", suggestion |-> ""] >>,
   suggestedFix |-> [isNull |-> TRUE, value |-> ""]]

\* the value of the catch branch: path and error, nothing else
ErrorEntry(filePath, message) ==
  [path |-> filePath, error |-> "Error checking file: " \o message]

\* a value that is a string or null
null == [isNull |-> TRUE, value |-> ""]
String(v) == [isNull |-> FALSE, value |-> v]

SuggestedImport == "import { ValidationService, FormatterService } from \"@/lib/validation\";"

\* a count of the lines that have an issue, not of the issues
countLines(issues) == Cardinality({issues[k].line : k \in 1..Len(issues)})

\* issues.length
issueCountOf(issues) == Len(issues)

\* a report that suggests the import to every file with an issue
ReportSuggestingAlways(usesValidationImport, usesValidationService, usesFormatterService, issues) ==
  [usesValidationImport |-> usesValidationImport,
   usesValidationService |-> usesValidationService,
   usesFormatterService |-> usesFormatterService,
   issueCount |-> Len(issues),
   issues |-> issues,
   suggestedFix |-> IF Len(issues) > 0 THEN String(SuggestedImport) ELSE null]

\* the value checkFile returns, without its path
Report(usesValidationImport, usesValidationService, usesFormatterService, issues) ==
  [usesValidationImport |-> usesValidationImport,
   usesValidationService |-> usesValidationService,
   usesFormatterService |-> usesFormatterService,
   issueCount |-> issueCountOf(issues),
   issues |-> issues,
   suggestedFix |-> IF Len(issues) > 0 /\ ~usesValidationImport
                      THEN String(SuggestedImport) ELSE null]

IssuesOf(content, pushed, usesValidationService, usesFormatterService) ==
  [k \in 1..Len(pushed) |->
     IssueOf(content, pushed[k], usesValidationService, usesFormatterService)]

\* the loops over the detectors and their matches, given the three flags
\* and the entries an Issue is pushed for: the report, or the message of
\* the error getSuggestion raised
Checked(content, usesValidationImport, usesValidationService,
        usesFormatterService, pushed) ==
  IF \E k \in 1..Len(pushed) : SuggestionThrows(pushed[k].match)
    THEN [thrown |-> TypeErrorMessage]
    ELSE Report(usesValidationImport, usesValidationService, usesFormatterService,
                IssuesOf(content, pushed, usesValidationService,
                         usesFormatterService))

\* the body of the try block once the text is read
analyze(content) ==
  Checked(content,
          includes(content, "@/lib/validation"),
          includes(content, "ValidationService"),
          includes(content, "FormatterService"),
          PushedEntries(content))

\* ------------------------------------------------------------------------
\* Paths (node's path module on absolute POSIX paths without "." or "..")

StartsWith(s, w) == At(s, 1, w)
EndsWith(s, w) == At(s, Len(s) - Len(w) + 1, w)

\* path.join(a, b)
join(a, b) == a \o "/" \o b

\* path.join(p, '..'): p without its last segment
parent(p) ==
  LET slashes == {i \in 1..Len(p) : Ch(p, i) = "/"}
      last == CHOOSE m \in slashes : \A n \in slashes : n <= m
  IN  SubSeq(p, 1, last - 1)

\* path.relative(from, to) for a path to at or below from
relative(from, to) ==
  IF to = from THEN "" ELSE SubSeq(to, Len(from) + 2, Len(to))

IsBelow(p, dir) == StartsWith(p, dir \o "/")

\* process.cwd(): the server runs in a subdirectory of the project
cwd == "/work/app/server"

\* ------------------------------------------------------------------------
\* The file system: the files of the tree in the order a directory walk
\* meets them.  A directory is a path with a file below it.

existsSync(fs, p) == \E k \in 1..Len(fs) : fs[k].path = p \/ IsBelow(fs[k].path, p)
isDirectory(fs, p) == \E k \in 1..Len(fs) : IsBelow(fs[k].path, p)

\* the extensions of the glob `${targetPath}/**/*.{tsx,jsx,ts,js}`
ScanExtensions == <<".tsx", ".jsx", ".ts", ".js">>

MatchesGlob(p, targetPath) ==
  /\ IsBelow(p, targetPath)
  /\ \E x \in 1..Len(ScanExtensions) : EndsWith(p, ScanExtensions[x])

pathOf(entry) == entry.path

\* globSync(pattern, { absolute: true })
pathsOf(entries) == [k \in 1..Len(entries) |-> pathOf(entries[k])]

globSync(fs, targetPath) ==
  pathsOf(pick(fs, {k \in 1..Len(fs) : MatchesGlob(fs[k].path, targetPath)}))

\* ------------------------------------------------------------------------
\* runValidationCheckerTool, lines 130-158: from the arguments to the list
\* of files, or to the answer that the target was not found.

DefaultTarget == "src/components"

projectRoot == parent(cwd)

\* args.target || 'src/components': an absent or empty target is the default
targetOf(args) == IF args.target = "" THEN DefaultTarget ELSE args.target

targetPathOf(args) == join(projectRoot, targetOf(args))

\* a scan that took every target for an existing one
AlwaysFound(fs, args) == TRUE

TargetFound(fs, args) == existsSync(fs, targetPathOf(args))

selectFiles(fs, args) ==
  IF isDirectory(fs, targetPathOf(args))
    THEN globSync(fs, targetPathOf(args))
    ELSE <<targetPathOf(args)>>

TextBlock(lines) == [content |-> << [type |-> "text", text |-> lines] >>]

TargetNotFound(args) == TextBlock(<< "Target not found: " \o targetOf(args) >>)

\* ------------------------------------------------------------------------
\* runValidationCheckerTool, lines 163-186: the summary of the results

\* a filter written with >= in place of >
HasIssueCount(result) == "issueCount" \in DOMAIN result /\ result.issueCount >= 0

\* result.issueCount > 0; an error entry has no issueCount, and
\* undefined > 0 is false
HasIssues(result) == "issueCount" \in DOMAIN result /\ result.issueCount > 0

filterWithIssues(results) == SelectSeq(results, HasIssues)

\* Array.prototype.sort with (a, b) => b.issueCount - a.issueCount: a stable
\* sort, so an element goes behind every earlier one that does not count less
insertAfter(front, n, x) ==
  SubSeq(front, 1, n) \o <<x>> \o SubSeq(front, n + 1, Len(front))

\* a sort that is not stable: x goes before the elements that count the same
placeBeforeEqual(front, x) ==
  Cardinality({k \in 1..Len(front) : front[k].issueCount > x.issueCount})

\* the number of leading elements of front that stay before x
placeOf(front, x) ==
  IF \A k \in 1..Len(front) : front[k].issueCount < x.issueCount THEN 0
  ELSE CHOOSE m \in 1..Len(front) :
         /\ front[m].issueCount >= x.issueCount
         /\ \A j \in (m + 1)..Len(front) : front[j].issueCount < x.issueCount

insertByIssueCount(front, x) == insertAfter(front, placeOf(front, x), x)

RECURSIVE sortByIssueCount(_)
sortByIssueCount(list) ==
  IF list = <<>> THEN <<>>
  ELSE insertByIssueCount(sortByIssueCount(SubSeq(list, 1, Len(list) - 1)),
                          list[Len(list)])

\* a reduce that adds one for each file
countEntries(list) == Len(list)

RECURSIVE sumIssueCount(_)
sumIssueCount(list) ==
  IF list = <<>> THEN 0 ELSE Head(list).issueCount + sumIssueCount(Tail(list))

\* a filter that lets every severity through
countAll(issues) == Len(issues)

countHigh(issues) == Cardinality({k \in 1..Len(issues) : issues[k].severity = "high"})

RECURSIVE sumHigh(_)
sumHigh(list) ==
  IF list = <<>> THEN 0 ELSE countHigh(Head(list).issues) + sumHigh(Tail(list))

\* filesWithIssues.slice(0, 5)
TopCount == 5
slice(list, n) == SubSeq(list, 1, IF Len(list) < n THEN Len(list) ELSE n)

mostProblematicFiles(top) ==
  [k \in 1..Len(top) |->
     [path |-> relative(projectRoot, top[k].path),
      issueCount |-> top[k].issueCount]]

detail(sorted) ==
  [k \in 1..Len(sorted) |->
     [path |-> relative(projectRoot, sorted[k].path),
      issues |-> sorted[k].issues,
      suggestedFix |-> sorted[k].suggestedFix]]

\* the summary object, from the total taken before the sort and the files
\* with issues once sorted
Summary(files, totalIssues, sorted) ==
  [filesScanned |-> Len(files),
   filesWithIssues |-> Len(sorted),
   totalIssues |-> totalIssues,
   highSeverityIssues |-> sumHigh(sorted),
   mostProblematicFiles |-> mostProblematicFiles(slice(sorted, TopCount)),
   detail |-> detail(sorted)]

summarize(files, results) ==
  Summary(files, sumIssueCount(filterWithIssues(results)),
          sortByIssueCount(filterWithIssues(results)))

\* ------------------------------------------------------------------------
\* JSON.stringify(summary, null, 2), as the lines of the text it returns

escapeChar(c) ==
  CASE c = "\"" -> "\\\""
    [] c = "\\" -> "\\\\"
    [] c = "\n" -> "\\n"
    [] c = "\r" -> "\\r"
    [] c = "\t" -> "\\t"
    [] OTHER -> c

\* every character of s escaped; s is halved so that the depth of the
\* evaluation stays logarithmic in its length
RECURSIVE escape(_)
escape(s) ==
  IF Len(s) = 0 THEN ""
  ELSE IF Len(s) = 1 THEN escapeChar(s)
  ELSE LET half == Len(s) \div 2
       IN  escape(SubSeq(s, 1, half)) \o escape(SubSeq(s, half + 1, Len(s)))

quote(s) == "\"" \o escape(s) \o "\""

\* the indentation of one level: the third argument of JSON.stringify
IndentWidth == 2

RECURSIVE spaces(_)
spaces(n) == IF n = 0 THEN "" ELSE " " \o spaces(n - 1)

indent(lines) == [k \in 1..Len(lines) |-> spaces(IndentWidth) \o lines[k]]

\* the blocks one after the other, a comma behind each but the last
RECURSIVE commaJoin(_)
commaJoin(blocks) ==
  IF blocks = <<>> THEN <<>>
  ELSE IF Len(blocks) = 1 THEN Head(blocks)
  ELSE LET b == Head(blocks)
       IN  SubSeq(b, 1, Len(b) - 1) \o << b[Len(b)] \o "," >> \o commaJoin(Tail(blocks))

objectLines(members) == <<"{">> \o indent(commaJoin(members)) \o <<"}">>

arrayLines(elements) ==
  IF elements = <<>> THEN <<"[]">>
  ELSE <<"[">> \o indent(commaJoin(elements)) \o <<"]">>

member(key, lines) == << quote(key) \o ": " \o Head(lines) >> \o Tail(lines)

numberLines(n) == << ToString(n) >>
stringLines(s) == << quote(s) >>
nullableLines(v) == IF v.isNull THEN <<"null">> ELSE stringLines(v.value)

issueLines(issue) ==
  objectLines(<< member("pattern", stringLines(issue.pattern)),
                 member("message", stringLines(issue.message)),
                 member("severity", stringLines(issue.severity)),
                 member("line", numberLines(issue.line)),
                 member("content", stringLines(issue.content)),
                 member("suggestion", stringLines(issue.suggestion)) >>)

offenderLines(file) ==
  objectLines(<< member("path", stringLines(file.path)),
                 member("issueCount", numberLines(file.issueCount)) >>)

detailLines(file) ==
  objectLines(<< member("path", stringLines(file.path)),
                 member("issues",
                        arrayLines([k \in 1..Len(file.issues) |->
                                      issueLines(file.issues[k])])),
                 member("suggestedFix", nullableLines(file.suggestedFix)) >>)

stringify(summary) ==
  objectLines(<<
    member("filesScanned", numberLines(summary.filesScanned)),
    member("filesWithIssues", numberLines(summary.filesWithIssues)),
    member("totalIssues", numberLines(summary.totalIssues)),
    member("highSeverityIssues", numberLines(summary.highSeverityIssues)),
    member("mostProblematicFiles",
           arrayLines([k \in 1..Len(summary.mostProblematicFiles) |->
                         offenderLines(summary.mostProblematicFiles[k])])),
    member("detail",
           arrayLines([k \in 1..Len(summary.detail) |->
                         detailLines(summary.detail[k])])) >>)

\* ------------------------------------------------------------------------
\* The file trees and arguments the scans run on

\* one call of .match(/x/) and one call of .trim()
TextMatchAndTrim == "const a = s.match(/x/)\nconst b = s.trim()\n"
\* a regex literal passed to .test
TextRegexTest == "if (x.test(/^[a-z]+$/)) {}"
\* imports the helper module, uses both services, no detector matches
TextClean == "import { ValidationService, FormatterService } from '@/lib/validation'\nexport const v = ValidationService.email\nexport const f = FormatterService.phone\n"
\* a field name followed by a validation word
TextFieldCheck == "// email must be valid\nfunction check(email) {\n  return email.length > 3\n}\n"
TextNewRegExp == "const re = new RegExp('^a')\n"
\* an arrow function with a body, and a string method with a longer name
TextReplaceAll == "const h = (v) => {\n  return v.replaceAll('a', 'b')\n}"
\* an arrow function with a body in a file that has the word undefined
TextArrowUndefined == "const f = (v) => {\n  return undefined\n}"
\* a validation name with a regex in a call of .test that is no literal
TextEmailValidation == "const emailValidation = (x) => /.+/.test(x)"
\* a call of .test whose regex literal stands on the next line
TextTestAcrossLines == "const ok = re.test(\n  /abc/\n)\nlet validateField = function () {}\n"
\* a call of .trim() below a comment that has the word trim
TextTrimComment == "// trim the name\n  const b = s.trim()  \n"
\* a call of a helper service in a file that does not import the helper module
TextServiceNoImport == "const ok = ValidationService.email(value)\n"
\* a call of .trim() in a file that imports the helper module
TextHelperAndTrim == "import { FormatterService } from '@/lib/validation'\nconst b = s.trim()\n"
\* three lines, each with a regex literal passed to .test
TextThreeTests == "a.test(/x/)\nb.test(/y/)\nc.test(/z/)\n"

SampleTexts == {TextMatchAndTrim, TextTrimComment, TextServiceNoImport,
                TextThreeTests,
                TextHelperAndTrim, TextRegexTest, TextClean, TextFieldCheck,
                TextNewRegExp, TextReplaceAll, TextArrowUndefined,
                TextEmailValidation, TextTestAcrossLines}

\* analyze is a function of the text alone: its values on the texts above,
\* computed once
AnalysisOfSample == [text \in SampleTexts |-> analyze(text)]

analysisOf(content) ==
  IF content \in SampleTexts THEN AnalysisOfSample[content] ELSE analyze(content)

\* a catch block that keeps a list of issues beside the error
resultWithIssues(filePath, analysis) ==
  IF "thrown" \in DOMAIN analysis
    THEN [path |-> filePath, error |-> "Error checking file: " \o analysis.thrown,
          issueCount |-> 0, issues |-> <<>>]
    ELSE [path |-> filePath] @@ analysis

\* the value of the try block, or of the catch block when a step raised
resultOf(filePath, analysis) ==
  IF "thrown" \in DOMAIN analysis
    THEN ErrorEntry(filePath, analysis.thrown)
    ELSE [path |-> filePath] @@ analysis

checkFile(filePath, file) ==
  IF ~file.readable THEN ErrorEntry(filePath, file.error)
  ELSE resultOf(filePath, analysisOf(file.content))

Readable(p, text) == [path |-> p, readable |-> TRUE, error |-> "", content |-> text]
Unreadable(p) ==
  [path |-> p, readable |-> FALSE,
   error |-> "EACCES: permission denied, open '" \o p \o "'", content |-> ""]

\* what fs.promises.readFile finds at p
readFile(fs, p) ==
  IF \E k \in 1..Len(fs) : fs[k].path = p
    THEN fs[CHOOSE k \in 1..Len(fs) : fs[k].path = p]
    ELSE [path |-> p, readable |-> FALSE,
          error |-> "ENOENT: no such file or directory, open '" \o p \o "'",
          content |-> ""]

\* the most files of src/components whose state varies from tree to tree
MaxFiles == 3

FileKinds == {"match-and-trim", "regex-test", "clean", "unreadable"}

ComponentPath(i) ==
  join(projectRoot,
       "src/components/Field" \o ToString(i)
         \o ScanExtensions[((i - 1) % Len(ScanExtensions)) + 1])

ComponentFile(i, kind) ==
  CASE kind = "match-and-trim" -> Readable(ComponentPath(i), TextMatchAndTrim)
    [] kind = "regex-test" -> Readable(ComponentPath(i), TextRegexTest)
    [] kind = "clean" -> Readable(ComponentPath(i), TextClean)
    [] kind = "unreadable" -> Unreadable(ComponentPath(i))

LegacyFiles ==
  << Readable(join(projectRoot, "src/components/legacy/a.js"), TextFieldCheck),
     Readable(join(projectRoot, "src/components/legacy/b.jsx"), TextNewRegExp),
     Readable(join(projectRoot, "src/components/legacy/c.ts"), TextReplaceAll) >>

\* files a scan of src/components must leave out: another extension, another
\* directory
OtherFiles ==
  << Readable(join(projectRoot, "src/components/notes.md"), TextMatchAndTrim),
     Readable(join(projectRoot, "src/lib/validation.ts"), TextRegexTest) >>

Components(kinds) == [i \in DOMAIN kinds |-> ComponentFile(i, kinds[i])]

\* up to MaxFiles components, each of any kind
ComponentTrees ==
  { Components(kinds) \o OtherFiles :
      kinds \in UNION {[1..n -> FileKinds] : n \in 0..MaxFiles} }

\* up to MaxFiles components of one kind beside the legacy directory
LegacyTrees ==
  { Components([i \in 1..n |-> kind]) \o LegacyFiles \o OtherFiles :
      kind \in FileKinds, n \in 0..MaxFiles }

ProbeTexts == {TextTrimComment, TextServiceNoImport, TextHelperAndTrim,
               TextThreeTests,
               TextArrowUndefined, TextEmailValidation, TextTestAcrossLines,
               TextFieldCheck, TextClean}

ProbeTrees ==
  { << Readable(join(projectRoot, "src/components/Field1.tsx"), t) >> : t \in ProbeTexts }

\* a tree without src/components
BareTrees ==
  { << Readable(join(projectRoot, "src/lib/validation.ts"), TextRegexTest) >> }

Targets == {"", "src/components/legacy", "src/components/Field1.tsx",
            "src/components/notes.md", "src/missing"}

\* const fix = args.fix || false: read and never used
fixOf(args) == args.fix

\* ------------------------------------------------------------------------
\* The state

VARIABLES
  fs,        \* the file tree, which no scan changes
  args,      \* the arguments of the invocation
  pc,        \* where the invocation stands: "idle", "checking", "returned"
  files,     \* the list of files to check
  settled,   \* the positions in files whose checkFile has ended
  results,   \* what Promise.all has collected, by position in files
  summary,   \* the summary object, once built
  response,  \* what the invocation returned
  earlier,   \* the invocations that returned before: arguments and response
  expired,   \* the deadline of the caller has passed
  request,   \* the body of a request to /invoke
  reply,     \* the answer to the request: status and body
  program,   \* the statements of a text given to the file analyzer
  analysis,  \* what the file analyzer returned for the text
  asked,     \* the arguments of a call of getSuggestion
  suggestion, \* what the call returned
  matching,  \* the lastIndex of the pattern of each detector
  scans      \* the invocations that run side by side in one process

\* the state of the request dispatch, and of the file analyzer
dispatch == <<request, reply>>
analyzer == <<program, analysis>>

\* the state of a call of getSuggestion
advisor == <<asked, suggestion>>

\* the state the invocations of one process share, and the invocations
concurrent == <<matching, scans>>

vars == <<fs, args, pc, files, settled, results, summary, response, earlier,
          expired, dispatch, analyzer, advisor, concurrent>>

\* the place of a value Promise.all still waits for
Pending == [pending |-> TRUE]

\* no summary built, nothing returned
None == [none |-> TRUE]

\* the arguments of the schema: an absent target is "", an absent fix FALSE,
\* which is what  args.target || 'src/components'  and  args.fix || false
\* make of them
Arguments == [target : Targets, fix : BOOLEAN]

Trees == ComponentTrees \cup LegacyTrees \cup ProbeTrees \cup BareTrees

\* runValidationCheckerTool is called with the arguments on the tree
Init ==
  /\ fs \in Trees
  /\ args \in Arguments
  /\ pc = "idle"
  /\ files = <<>>
  /\ settled = {}
  /\ results = <<>>
  /\ summary = None
  /\ response = None
  /\ earlier = <<>>
  /\ expired = FALSE
  /\ request = None
  /\ reply = None
  /\ program = <<>>
  /\ analysis = None
  /\ asked = None
  /\ suggestion = None
  /\ matching = None
  /\ scans = <<>>

\* lines 146-156: the target is neither a directory nor a file
StartNotFound ==
  /\ pc = "idle"
  /\ ~TargetFound(fs, args)
  /\ response' = TargetNotFound(args)
  /\ pc' = "returned"
  /\ UNCHANGED <<fs, args, files, settled, results, summary, earlier,
               expired, dispatch, analyzer, advisor, concurrent>>

\* lines 138-147 and 161: the files are selected and a checkFile is started
\* for each of them
StartScan ==
  /\ pc = "idle"
  /\ TargetFound(fs, args)
  /\ files' = selectFiles(fs, args)
  /\ settled' = {}
  /\ results' = [k \in 1..Len(files') |-> Pending]
  /\ pc' = "checking"
  /\ UNCHANGED <<fs, args, summary, response, earlier, expired, dispatch, analyzer, advisor, concurrent>>

\* a collection in the order of arrival: the value goes behind the values
\* that arrived before it
collectByArrival(list, k, result) ==
  [list EXCEPT ![Min({j \in 1..Len(list) : list[j] = Pending})] = result]

\* Promise.all keeps the value of the k-th promise at position k
collect(list, k, result) == [list EXCEPT ![k] = result]

\* one checkFile ends, in whatever order the reads complete
CheckFileSettles ==
  /\ pc = "checking"
  /\ \E k \in 1..Len(files) :
       /\ k \notin settled
       /\ settled' = settled \cup {k}
       /\ results' = collect(results, k, checkFile(files[k], readFile(fs, files[k])))
  /\ UNCHANGED <<fs, args, pc, files, summary, response, earlier,
               expired, dispatch, analyzer, advisor, concurrent>>

\* the lines a fix would put before the text of a file
fixedContent(file, result) ==
  IF "suggestedFix" \in DOMAIN result /\ ~result.suggestedFix.isNull
    THEN [file EXCEPT !.content = result.suggestedFix.value \o "\n" \o file.content]
    ELSE file

\* the tree once the suggested import is written into each file that lacks it
fixedTree(tree, list, found) ==
  [n \in 1..Len(tree) |->
     IF \E k \in 1..Len(list) : list[k] = tree[n].path
       THEN fixedContent(tree[n],
                         found[CHOOSE k \in 1..Len(list) : list[k] = tree[n].path])
       ELSE tree[n]]

\* an aggregation that applies the suggested fixes when fix is set
AggregateApplyingFix ==
  /\ pc = "checking"
  /\ settled = 1..Len(files)
  /\ summary' = summarize(files, results)
  /\ response' = TextBlock(stringify(summary'))
  /\ pc' = "returned"
  /\ fs' = IF fixOf(args) THEN fixedTree(fs, files, results) ELSE fs
  /\ UNCHANGED <<args, files, settled, results, earlier, expired, dispatch, analyzer, advisor, concurrent>>

\* lines 163-195: every checkFile has ended; the summary is built and
\* returned as one text block
Aggregate ==
  /\ pc = "checking"
  /\ settled = 1..Len(files)
  /\ summary' = summarize(files, results)
  /\ response' = TextBlock(stringify(summary'))
  /\ pc' = "returned"
  /\ UNCHANGED <<fs, args, files, settled, results, earlier,
               expired, dispatch, analyzer, advisor, concurrent>>

\* the tool is called once more on the same tree with the same target, and
\* with fix set or not
InvokeAgain ==
  /\ pc = "returned"
  /\ earlier = <<>>
  /\ earlier' = << [args |-> args, response |-> response] >>
  /\ \E fix \in BOOLEAN : args' = [args EXCEPT !.fix = fix]
  /\ pc' = "idle"
  /\ files' = <<>>
  /\ settled' = {}
  /\ results' = <<>>
  /\ summary' = None
  /\ response' = None
  /\ expired' = FALSE
  /\ UNCHANGED <<fs, dispatch, analyzer, advisor, concurrent>>

Next ==
  \/ StartNotFound
  \/ StartScan
  \/ CheckFileSettles
  \/ Aggregate
  \/ InvokeAgain

Spec == Init /\ [][Next]_vars

\* ------------------------------------------------------------------------
\* The deadline of the caller: the code has no timer and reads no clock, so
\* the deadline passes beside the scan, which goes on as before

DeadlineExpires ==
  /\ pc = "checking"
  /\ ~expired
  /\ expired' = TRUE
  /\ UNCHANGED <<fs, args, pc, files, settled, results, summary, response,
                 earlier, dispatch, analyzer, advisor, concurrent>>

NextDeadline ==
  \/ Next
  \/ DeadlineExpires

SpecDeadline == Init /\ [][NextDeadline]_vars

\* ------------------------------------------------------------------------
\* The properties of the report

\* the invocation has returned a report
Reported == pc = "returned" /\ summary # None

\* the positions in files of the results that count at least one issue
WithIssues ==
  {k \in 1..Len(results) :
     "issueCount" \in DOMAIN results[k] /\ results[k].issueCount > 0}

RECURSIVE Total(_)
Total(numbers) ==
  IF numbers = <<>> THEN 0 ELSE Head(numbers) + Total(Tail(numbers))

\* the number of issues of a severity among the issues of a list of files
SeverityCount(list, severity) ==
  Total([i \in 1..Len(list) |->
           Cardinality({n \in 1..Len(list[i].issues) :
                          list[i].issues[n].severity = severity})])

\* C1: an invocation that follows another with the same target on the same
\* tree returns the same response, whatever the order in which the checks of
\* either invocation ended.
C1_Idempotent ==
  (pc = "returned" /\ earlier # <<>> /\ earlier[1].args = args)
    => response = earlier[1].response

C1_Witness ==
  /\ pc = "returned"
  /\ earlier # <<>>
  /\ summary # None
  /\ summary.filesWithIssues >= 2
  /\ earlier[1].args = args
  /\ response = earlier[1].response

\* what checkFile gives for each file of the list, in the order of the list
ResultsInListOrder ==
  [k \in 1..Len(files) |-> checkFile(files[k], readFile(fs, files[k]))]

\* C2: the report is a function of the tree and of the target alone: the
\* collected results stand in the order of the file list and the response is
\* the serialized summary of that list, whatever the order in which the
\* checks ended.
C2_OrderIndependent ==
  Reported =>
    /\ results = ResultsInListOrder
    /\ summary = summarize(files, ResultsInListOrder)
    /\ response = TextBlock(stringify(summarize(files, ResultsInListOrder)))

C2_Witness ==
  /\ Reported
  /\ Len(files) >= 3
  /\ Cardinality(WithIssues) >= 2
  /\ results = ResultsInListOrder

\* C3: filesWithIssues counts, and detail lists, exactly the scanned files
\* whose issueCount is greater than 0; mostProblematicFiles lists only such
\* files; a file without issues is in neither.
C3_FilesWithIssuesExact ==
  Reported =>
    /\ summary.filesWithIssues = Cardinality(WithIssues)
    /\ Len(summary.detail) = Cardinality(WithIssues)
    /\ {summary.detail[i].path : i \in 1..Len(summary.detail)}
         = {relative(projectRoot, files[k]) : k \in WithIssues}
    /\ {summary.mostProblematicFiles[i].path :
          i \in 1..Len(summary.mostProblematicFiles)}
         \subseteq {relative(projectRoot, files[k]) : k \in WithIssues}
    /\ \A i \in 1..Len(summary.detail) : summary.detail[i].issues # <<>>
    /\ \A i \in 1..Len(summary.mostProblematicFiles) :
         summary.mostProblematicFiles[i].issueCount > 0

C3_Witness ==
  /\ Reported
  /\ WithIssues # {}
  /\ \E k \in 1..Len(results) :
       "issueCount" \in DOMAIN results[k] /\ results[k].issueCount = 0
  /\ summary.filesWithIssues < summary.filesScanned

\* C4: totalIssues is the sum of issueCount over the files with issues, and
\* the number of Issue entries that detail lists.
C4_TotalIssues ==
  Reported =>
    /\ summary.totalIssues
         = Total([k \in 1..Len(results) |->
                    IF k \in WithIssues THEN results[k].issueCount ELSE 0])
    /\ summary.totalIssues
         = Total([i \in 1..Len(summary.detail) |-> Len(summary.detail[i].issues)])

C4_Witness ==
  /\ Reported
  /\ Cardinality(WithIssues) >= 2
  /\ summary.totalIssues > summary.filesWithIssues

\* the fields a report would carry if it counted the issues of each severity
SeverityCountFields ==
  {"lowSeverityIssues", "mediumSeverityIssues", "highSeverityIssues"}

\* C5 as stated: the report carries a count for each of low, medium and
\* high, and the counts sum to totalIssues.
C5_SeverityCountsSum ==
  Reported =>
    /\ SeverityCountFields \subseteq DOMAIN summary
    /\ summary.lowSeverityIssues + summary.mediumSeverityIssues
         + summary.highSeverityIssues = summary.totalIssues

\* C5 as amended: of the severities the report counts only high:
\* highSeverityIssues is the number of issues of severity high that detail
\* lists, which with the issues of the other two severities makes
\* totalIssues; the report has no field for low or medium.
C5_HighSeverityOnly ==
  Reported =>
    /\ DOMAIN summary = {"filesScanned", "filesWithIssues", "totalIssues",
                         "highSeverityIssues", "mostProblematicFiles", "detail"}
    /\ summary.highSeverityIssues = SeverityCount(summary.detail, "high")
    /\ summary.highSeverityIssues
         + SeverityCount(summary.detail, "medium")
         + SeverityCount(summary.detail, "low") = summary.totalIssues

C5_Witness ==
  /\ Reported
  /\ summary.highSeverityIssues > 0
  /\ summary.highSeverityIssues < summary.totalIssues
  /\ SeverityCount(summary.detail, "low") > 0
  /\ SeverityCount(summary.detail, "medium") > 0

\* C6: in every result of checkFile that is not an error entry, issueCount
\* is the length of the list of issues.
C6_IssueCountIsLength ==
  \A k \in 1..Len(results) :
    "issueCount" \in DOMAIN results[k]
      => results[k].issueCount = Len(results[k].issues)

\* a result with several issues, two of them on one line
C6_Witness ==
  \E k \in 1..Len(results) :
    /\ "issueCount" \in DOMAIN results[k]
    /\ results[k].issueCount >= 3
    /\ Len(results[k].issues) = results[k].issueCount
    /\ \E m, n \in 1..Len(results[k].issues) :
         m # n /\ results[k].issues[m].line = results[k].issues[n].line

\* the place of file k among the files with issues: behind those that count
\* more, and behind those that count the same and stand before it in the list
Rank(k) ==
  1 + Cardinality({j \in WithIssues :
                     \/ results[j].issueCount > results[k].issueCount
                     \/ /\ results[j].issueCount = results[k].issueCount
                        /\ j < k})

\* C7: mostProblematicFiles has min(5, number of files with issues) entries,
\* the first of the files with issues in descending order of issueCount,
\* files that count the same in the order of the file list.
C7_TopOffenders ==
  Reported =>
    /\ Len(summary.mostProblematicFiles)
         = (IF Cardinality(WithIssues) < 5 THEN Cardinality(WithIssues) ELSE 5)
    /\ \A k \in WithIssues :
         /\ summary.detail[Rank(k)].path = relative(projectRoot, files[k])
         /\ Rank(k) <= 5 =>
              summary.mostProblematicFiles[Rank(k)]
                = [path |-> relative(projectRoot, files[k]),
                   issueCount |-> results[k].issueCount]

\* more than five files with issues, two of which count the same
C7_Witness ==
  /\ Reported
  /\ Cardinality(WithIssues) > 5
  /\ Len(summary.mostProblematicFiles) = 5
  /\ \E j, k \in WithIssues :
       /\ j < k
       /\ results[j].issueCount = results[k].issueCount
       /\ Rank(j) <= 5
       /\ Rank(k) > 5

\* the path the target names
RequestedTarget == IF args.target = "" THEN "src/components" ELSE args.target
RequestedPath == projectRoot \o "/" \o RequestedTarget

\* p lies below the requested path
UnderRequested(p) ==
  /\ Len(p) > Len(RequestedPath) + 1
  /\ SubSeq(p, 1, Len(RequestedPath) + 1) = RequestedPath \o "/"

HasScannedExtension(p) ==
  \E ext \in {".tsx", ".jsx", ".ts", ".js"} :
    Len(p) >= Len(ext) /\ SubSeq(p, Len(p) - Len(ext) + 1, Len(p)) = ext

\* the number of files a scan of the target has to take
SelectedCount ==
  IF \E k \in 1..Len(fs) : UnderRequested(fs[k].path)
    THEN Cardinality({k \in 1..Len(fs) :
                        UnderRequested(fs[k].path) /\ HasScannedExtension(fs[k].path)})
    ELSE 1

\* the positions in files of the files the tree does not let read
ReadFailed ==
  {k \in 1..Len(files) :
     \E n \in 1..Len(fs) : fs[n].path = files[k] /\ ~fs[n].readable}

\* C8: filesScanned is the number of files selected for the target, those
\* whose read failed included; such a file is in neither list of the report
\* and adds nothing to filesWithIssues, totalIssues or highSeverityIssues.
C8_FilesScanned ==
  Reported =>
    /\ summary.filesScanned = SelectedCount
    /\ summary.filesWithIssues <= summary.filesScanned - Cardinality(ReadFailed)
    /\ \A k \in ReadFailed :
         /\ \A i \in 1..Len(summary.detail) :
              summary.detail[i].path # relative(projectRoot, files[k])
         /\ \A i \in 1..Len(summary.mostProblematicFiles) :
              summary.mostProblematicFiles[i].path # relative(projectRoot, files[k])
    /\ summary.totalIssues
         = Total([k \in 1..Len(results) |->
                    IF k \notin ReadFailed /\ "issueCount" \in DOMAIN results[k]
                      THEN results[k].issueCount ELSE 0])
    /\ summary.highSeverityIssues
         = Total([k \in 1..Len(results) |->
                    IF k \notin ReadFailed /\ "issues" \in DOMAIN results[k]
                      THEN Cardinality({n \in 1..Len(results[k].issues) :
                                          results[k].issues[n].severity = "high"})
                      ELSE 0])

\* a scan of a directory with a file that cannot be read beside files with
\* issues
C8_Witness ==
  /\ Reported
  /\ ReadFailed # {}
  /\ WithIssues # {}
  /\ summary.filesScanned = Len(files)
  /\ summary.filesScanned >= 3
  /\ summary.filesWithIssues < summary.filesScanned

\* C9 as stated: the scan goes on after a file that cannot be read, and the
\* error text recorded for the file is in the detail of the report.
C9_ErrorTextInDetail ==
  Reported =>
    \A k \in ReadFailed :
      \E i \in 1..Len(summary.detail) :
        /\ summary.detail[i].path = relative(projectRoot, files[k])
        /\ "error" \in DOMAIN summary.detail[i]
        /\ summary.detail[i].error = results[k].error

\* the tree has neither a file nor a directory at the requested path
NotFound ==
  \A k \in 1..Len(fs) :
    fs[k].path # RequestedPath /\ ~UnderRequested(fs[k].path)

\* C10: when the target is neither a file nor a directory the invocation
\* returns the one line "Target not found: <target>", has selected and read
\* no file, and has built no summary.
C10_TargetNotFound ==
  (pc = "returned" /\ NotFound) =>
    /\ response = [content |->
                     << [type |-> "text",
                         text |-> << "Target not found: " \o RequestedTarget >>] >>]
    /\ files = <<>>
    /\ settled = {}
    /\ results = <<>>
    /\ summary = None

\* the default target on a tree without src/components
C10_Witness ==
  /\ pc = "returned"
  /\ NotFound
  /\ args.target = ""
  /\ response.content[1].text = << "Target not found: src/components" >>
  /\ summary = None

\* ------------------------------------------------------------------------
\* The scenarios of single texts

\* the text of the file at position k of the list, "" when it cannot be read
ContentOf(k) ==
  IF \E n \in 1..Len(fs) : fs[n].path = files[k] /\ fs[n].readable
    THEN fs[CHOOSE n \in 1..Len(fs) : fs[n].path = files[k]].content
    ELSE ""

\* the check of file k has ended and k holds the text
CheckedText(k, text) ==
  /\ k \in settled
  /\ k \in 1..Len(results)
  /\ ContentOf(k) = text

\* the scan of the single file Field1.tsx has returned and the file holds
\* the text
SingleFileReport(text) ==
  /\ Reported
  /\ args.target = "src/components/Field1.tsx"
  /\ Len(files) = 1
  /\ ContentOf(1) = text

\* C13 as stated: the scan of a single file with one .match(/x/) call and
\* one .trim() call reports filesScanned 1, filesWithIssues 1, totalIssues 2,
\* one issue of severity high, and the one offender {path, issueCount: 2}.
C13_MatchAndTrimScenario ==
  SingleFileReport("const a = s.match(/x/)\nconst b = s.trim()\n") =>
    /\ summary.filesScanned = 1
    /\ summary.filesWithIssues = 1
    /\ summary.totalIssues = 2
    /\ summary.highSeverityIssues = 1
    /\ summary.mostProblematicFiles
         = << [path |-> "src/components/Field1.tsx", issueCount |-> 2] >>

\* the issues of a result that a detector raised
IssuesOfPattern(result, pattern) ==
  {n \in 1..Len(result.issues) : result.issues[n].pattern = pattern}

\* C14 as stated: the text  const emailValidation = (x) => /.+/.test(x)
\* gives two issues, one of the field detector and one of the .test()
\* detector, each with a line number of the text.
C14_EmailValidationScenario ==
  \A k \in 1..Len(results) :
    CheckedText(k, "const emailValidation = (x) => /.+/.test(x)") =>
      /\ "issues" \in DOMAIN results[k]
      /\ results[k].issueCount = 2
      /\ Cardinality(IssuesOfPattern(results[k], PatternField)) = 1
      /\ Cardinality(IssuesOfPattern(results[k], PatternTest)) = 1
      /\ \A n \in 1..Len(results[k].issues) : results[k].issues[n].line = 1

\* C15: the text  if (x.test(/^[a-z]+$/)) {}  gives exactly one issue, of
\* severity high, raised by the .test() detector on line 1, whose suggestion
\* names a validator of ValidationService in place of regex tests.
C15_RegexTestScenario ==
  \A k \in 1..Len(results) :
    CheckedText(k, "if (x.test(/^[a-z]+$/)) {}") =>
      /\ "issues" \in DOMAIN results[k]
      /\ results[k].issueCount = 1
      /\ Len(results[k].issues) = 1
      /\ results[k].issues[1].severity = "high"
      /\ results[k].issues[1].pattern = PatternTest
      /\ results[k].issues[1].line = 1
      /\ includes(results[k].issues[1].suggestion, "ValidationService")
      /\ includes(results[k].issues[1].suggestion, "validator")
      /\ includes(results[k].issues[1].suggestion, "instead of regex tests")

C15_Witness ==
  \E k \in 1..Len(results) :
    /\ CheckedText(k, "if (x.test(/^[a-z]+$/)) {}")
    /\ "issues" \in DOMAIN results[k]
    /\ results[k].issues[1].content = "if (x.test(/^[a-z]+$/)) {}"
    /\ results[k].suggestedFix.isNull = FALSE

\* the substrings of the text that the pattern of detector d matches
DistinctMatches(content, d) ==
  CASE d = 1 -> {FieldMatchAt(content, i)[1].text : i \in FieldStarts(content)}
    [] d = 2 -> {RegexCallAt(content, i, ".test(")[1].text :
                   i \in RegexCallStarts(content, ".test(")}
    [] d = 3 -> {RegexCallAt(content, i, ".match(")[1].text :
                   i \in RegexCallStarts(content, ".match(")}
    [] d = 4 -> IF includes(content, "new RegExp(") THEN {"new RegExp("} ELSE {}
    [] d = 5 -> {StringMethodMatch(Min(StringMethodsAt(content, i)))[1].text :
                   i \in StringMethodStarts(content)}
    [] d = 6 -> {CustomValidatorAt(content, i)[1].text :
                   i \in CustomValidatorStarts(content)}

\* C20 as stated: of each detector a result has one issue for each distinct
\* substring of the text that the pattern matches, and no other.
C20_IssuePerDistinctMatch ==
  \A k \in 1..Len(results) :
    (k \in settled /\ "issues" \in DOMAIN results[k]) =>
      \A d \in 1..Len(VALIDATION_ISSUES) :
        Cardinality(IssuesOfPattern(results[k], VALIDATION_ISSUES[d].pattern))
          = Cardinality(DistinctMatches(ContentOf(k), d))

C11_OneTextBlockWithFailures ==
  pc = "returned" =>
    /\ Len(response.content) = 1
    /\ response.content[1].type = "text"
    /\ ~NotFound =>
         /\ summary # None
         /\ response.content[1].text = stringify(summary)
         /\ response.content[1].text[1] = "{"
         /\ SubSeq(response.content[1].text[2], 1, 3) = "  \""
         /\ \A k \in ReadFailed :
              \E n \in 1..Len(response.content[1].text) :
                includes(response.content[1].text[n],
                         relative(projectRoot, files[k]))

\* C19 as stated: a report returned by a scan during which the deadline of
\* the caller passed is marked incomplete.
C19_MarkedIncomplete ==
  (Reported /\ expired) =>
    /\ "incomplete" \in DOMAIN summary
    /\ summary.incomplete = TRUE

\* ------------------------------------------------------------------------
\* The request dispatch: app.post('/invoke')

validationCheckerToolName == "validationChecker"

\* the names the switch has a case for, in its order
RoutedToolNames ==
  << "projectStructure", "validationSystem", "fileAnalyzer", "screenshot",
     "architect", "codeReview", "documentationHelper" >>

IsRouted(name) == \E n \in 1..Len(RoutedToolNames) : RoutedToolNames[n] = name

\* InvokeToolRequestSchema.safeParse(req.body).success: name is required
safeParse(body) == "name" \in DOMAIN body

\* what the run function of a routed tool returns, which the dispatch passes
\* on as it is
ToolResult(name, given) == [tool |-> name, arguments |-> given]

InvalidRequest == [status |-> 400, body |-> [error |-> "Invalid request format"]]

ToolNotFound(name) ==
  [status |-> 404, body |-> [error |-> "Tool '" \o name \o "' not found"]]

Routed(name, given) == [status |-> 200, body |-> ToolResult(name, given)]

RequestNames ==
  {RoutedToolNames[n] : n \in 1..Len(RoutedToolNames)}
    \cup {validationCheckerToolName, "componentGenerator", "noSuchTool"}

\* the bodies of the requests: with a name and arguments, or without a name
Requests ==
  [name : RequestNames, arguments : Arguments] \cup [arguments : Arguments]

\* a request has arrived at /invoke
InitInvoke ==
  /\ fs \in BareTrees
  /\ args = [target |-> "", fix |-> FALSE]
  /\ pc = "idle"
  /\ files = <<>>
  /\ settled = {}
  /\ results = <<>>
  /\ summary = None
  /\ response = None
  /\ earlier = <<>>
  /\ expired = FALSE
  /\ request \in Requests
  /\ reply = None
  /\ program = <<>>
  /\ analysis = None
  /\ asked = None
  /\ suggestion = None
  /\ matching = None
  /\ scans = <<>>

scanner == <<fs, args, pc, files, settled, results, summary, response, earlier, expired>>

\* lines 398-405: the body does not parse
InvokeInvalid ==
  /\ reply = None
  /\ ~safeParse(request)
  /\ reply' = InvalidRequest
  /\ UNCHANGED <<scanner, request, analyzer, advisor, concurrent>>

\* lines 407-424: the switch has a case for the name
InvokeRouted ==
  /\ reply = None
  /\ safeParse(request)
  /\ IsRouted(request.name)
  /\ reply' = Routed(request.name, request.arguments)
  /\ UNCHANGED <<scanner, request, analyzer, advisor, concurrent>>

\* lines 425-428: the default case
InvokeNotFound ==
  /\ reply = None
  /\ safeParse(request)
  /\ ~IsRouted(request.name)
  /\ reply' = ToolNotFound(request.name)
  /\ UNCHANGED <<scanner, request, analyzer, advisor, concurrent>>

NextInvoke ==
  \/ InvokeInvalid
  \/ InvokeRouted
  \/ InvokeNotFound

SpecInvoke == InitInvoke /\ [][NextInvoke]_vars

\* C16 as stated: a well-formed request that names validationChecker is
\* answered, like a request for any routed tool, with status 200 and the
\* result of the tool.
C16_ValidationCheckerRouted ==
  (reply # None /\ safeParse(request)
     /\ request.name = validationCheckerToolName) =>
    /\ reply.status = 200
    /\ "tool" \in DOMAIN reply.body
    /\ reply.body.tool = validationCheckerToolName

\* ------------------------------------------------------------------------
\* The file analyzer: analyzeImports and analyzeExports

\* the position after a greedy \w* that starts at i
WordEnd(s, i) ==
  Min({j \in i..(Len(s) + 1) : j > Len(s) \/ Ch(s, j) \notin WordChars})

\* the position of the first character at or after i that is in stops, or
\* the position after the text
Until(s, i, stops) ==
  Min({j \in i..(Len(s) + 1) : j > Len(s) \/ Ch(s, j) \in stops})

Quotes == {"'", "\""}

\* ['"]([^'"]+)['"] with its first quote at open: the position of the
\* closing quote, or 0
QuotedClose(s, open) ==
  IF /\ open <= Len(s)
     /\ Ch(s, open) \in Quotes
     /\ Until(s, open + 1, Quotes) <= Len(s)
     /\ Until(s, open + 1, Quotes) > open + 1
    THEN Until(s, open + 1, Quotes) ELSE 0

\* \s+from\s+ at c: the position after it, or 0
FromEnd(s, c) ==
  IF /\ SkipSpace(s, c) > c
     /\ At(s, SkipSpace(s, c), "from")
     /\ SkipSpace(s, SkipSpace(s, c) + 4) > SkipSpace(s, c) + 4
    THEN SkipSpace(s, SkipSpace(s, c) + 4) ELSE 0

\* \s+from\s+['"]([^'"]+)['"] at c: the position of the closing quote, or 0
SourceClose(s, c) ==
  IF FromEnd(s, c) = 0 THEN 0 ELSE QuotedClose(s, FromEnd(s, c))

\* the text of the second group
SourceAt(s, c) == SubSeq(s, FromEnd(s, c) + 1, SourceClose(s, c) - 1)

\* keyword\s+{([^}]+)} at i: the position of the closing brace, or 0
BracesClose(s, i, keyword) ==
  IF /\ At(s, i, keyword)
     /\ SkipSpace(s, i + Len(keyword)) > i + Len(keyword)
     /\ At(s, SkipSpace(s, i + Len(keyword)), "{")
     /\ Until(s, SkipSpace(s, i + Len(keyword)) + 1, {"}"}) <= Len(s)
     /\ Until(s, SkipSpace(s, i + Len(keyword)) + 1, {"}"})
          > SkipSpace(s, i + Len(keyword)) + 1
    THEN Until(s, SkipSpace(s, i + Len(keyword)) + 1, {"}"}) ELSE 0

\* the text between the braces
BracesText(s, i, keyword) ==
  SubSeq(s, SkipSpace(s, i + Len(keyword)) + 1, BracesClose(s, i, keyword) - 1)

\* String.prototype.split(',')
RECURSIVE splitComma(_)
splitComma(s) ==
  IF \A i \in 1..Len(s) : Ch(s, i) # ","
    THEN <<s>>
    ELSE <<SubSeq(s, 1, Until(s, 1, {","}) - 1)>>
           \o splitComma(SubSeq(s, Until(s, 1, {","}) + 1, Len(s)))

trimAll(parts) == [k \in 1..Len(parts) |-> trim(parts[k])]

NotEmpty(s) == s # ""

\* .split(',').map(s => s.trim()).filter(s => s !== '')
namesOf(list) == SelectSeq(trimAll(splitComma(list)), NotEmpty)

\* importRegex at i: the position after the match, or 0
NamedImportEnd(s, i) ==
  IF BracesClose(s, i, "import") = 0 THEN 0
  ELSE IF SourceClose(s, BracesClose(s, i, "import") + 1) = 0 THEN 0
  ELSE SourceClose(s, BracesClose(s, i, "import") + 1) + 1

NamedImport(s, i) ==
  [source |-> SourceAt(s, BracesClose(s, i, "import") + 1),
   specifiers |-> namesOf(BracesText(s, i, "import"))]

\* the loop of importRegex.exec from lastIndex on
RECURSIVE NamedImportsFrom(_, _)
NamedImportsAt(s, i) ==
  <<NamedImport(s, i)>> \o NamedImportsFrom(s, NamedImportEnd(s, i))

NamedImportsFrom(s, lastIndex) ==
  IF \A i \in lastIndex..Len(s) : NamedImportEnd(s, i) = 0 THEN <<>>
  ELSE NamedImportsAt(s, Min({i \in lastIndex..Len(s) : NamedImportEnd(s, i) > 0}))

\* import\s+(\w+) at i: the position after the name, or 0
ImportedNameEnd(s, i) ==
  IF /\ At(s, i, "import")
     /\ SkipSpace(s, i + 6) > i + 6
     /\ WordEnd(s, SkipSpace(s, i + 6)) > SkipSpace(s, i + 6)
    THEN WordEnd(s, SkipSpace(s, i + 6)) ELSE 0

\* defaultImportRegex at i: the position after the match, or 0
DefaultImportEnd(s, i) ==
  IF ImportedNameEnd(s, i) = 0 THEN 0
  ELSE IF SourceClose(s, ImportedNameEnd(s, i)) = 0 THEN 0
  ELSE SourceClose(s, ImportedNameEnd(s, i)) + 1

\* specifier + ' (default)'
defaultSpecifier(name) == name \o " (default)"

DefaultImport(s, i) ==
  [source |-> SourceAt(s, ImportedNameEnd(s, i)),
   specifiers |->
     << defaultSpecifier(SubSeq(s, SkipSpace(s, i + 6), ImportedNameEnd(s, i) - 1)) >>]

RECURSIVE DefaultImportsFrom(_, _)
DefaultImportsAt(s, i) ==
  <<DefaultImport(s, i)>> \o DefaultImportsFrom(s, DefaultImportEnd(s, i))

DefaultImportsFrom(s, lastIndex) ==
  IF \A i \in lastIndex..Len(s) : DefaultImportEnd(s, i) = 0 THEN <<>>
  ELSE DefaultImportsAt(s, Min({i \in lastIndex..Len(s) : DefaultImportEnd(s, i) > 0}))

\* the first loop pushes the grouped imports, the second the default ones
analyzeImports(content) ==
  [imports |-> NamedImportsFrom(content, 1) \o DefaultImportsFrom(content, 1)]

DeclarationKeywords ==
  <<"const", "function", "class", "let", "var", "type", "interface", "enum">>

\* export\s+ at i: the position after it, or 0
ExportEnd(s, i) ==
  IF At(s, i, "export") /\ SkipSpace(s, i + 6) > i + 6
    THEN SkipSpace(s, i + 6) ELSE 0

\* keyword\s+(\w+) at a: the position after the name, or 0
DeclaredNameEnd(s, a, keyword) ==
  IF /\ At(s, a, keyword)
     /\ SkipSpace(s, a + Len(keyword)) > a + Len(keyword)
     /\ WordEnd(s, SkipSpace(s, a + Len(keyword))) > SkipSpace(s, a + Len(keyword))
    THEN WordEnd(s, SkipSpace(s, a + Len(keyword))) ELSE 0

\* the alternatives of (?:const|...|enum) that match at a, in their order
DeclarationsAt(s, a) ==
  {k \in 1..Len(DeclarationKeywords) : DeclaredNameEnd(s, a, DeclarationKeywords[k]) > 0}

\* the alternative the regex takes at a
DeclarationAt(s, a) == DeclarationKeywords[Min(DeclarationsAt(s, a))]

\* exportRegex at i: the position after the match, or 0
NamedExportEnd(s, i) ==
  IF ExportEnd(s, i) = 0 THEN 0
  ELSE IF DeclarationsAt(s, ExportEnd(s, i)) = {} THEN 0
  ELSE DeclaredNameEnd(s, ExportEnd(s, i), DeclarationAt(s, ExportEnd(s, i)))

\* match[1]
NamedExport(s, i) ==
  SubSeq(s,
         SkipSpace(s, ExportEnd(s, i) + Len(DeclarationAt(s, ExportEnd(s, i)))),
         NamedExportEnd(s, i) - 1)

RECURSIVE NamedExportsFrom(_, _)
NamedExportsAt(s, i) ==
  <<NamedExport(s, i)>> \o NamedExportsFrom(s, NamedExportEnd(s, i))

NamedExportsFrom(s, lastIndex) ==
  IF \A i \in lastIndex..Len(s) : NamedExportEnd(s, i) = 0 THEN <<>>
  ELSE NamedExportsAt(s, Min({i \in lastIndex..Len(s) : NamedExportEnd(s, i) > 0}))

\* the loop of exportFromPatternRegex.exec: a match ends after its brace
RECURSIVE GroupedExportsFrom(_, _)
GroupedExportsAt(s, i) ==
  namesOf(BracesText(s, i, "export"))
    \o GroupedExportsFrom(s, BracesClose(s, i, "export") + 1)

GroupedExportsFrom(s, lastIndex) ==
  IF \A i \in lastIndex..Len(s) : BracesClose(s, i, "export") = 0 THEN <<>>
  ELSE GroupedExportsAt(s, Min({i \in lastIndex..Len(s) : BracesClose(s, i, "export") > 0}))

\* export\s+default\s+ at i: the position after it, or 0
DefaultEnd(s, i) ==
  IF ExportEnd(s, i) = 0 THEN 0
  ELSE IF /\ At(s, ExportEnd(s, i), "default")
          /\ SkipSpace(s, ExportEnd(s, i) + 7) > ExportEnd(s, i) + 7
    THEN SkipSpace(s, ExportEnd(s, i) + 7) ELSE 0

\* (?:function|class)?\s* at b: the position after it
DefaultNameStart(s, b) ==
  IF At(s, b, "function") THEN SkipSpace(s, b + 8)
  ELSE IF At(s, b, "class") THEN SkipSpace(s, b + 5)
  ELSE SkipSpace(s, b)

\* (\w+)? at the end of defaultExportRegex: the group, undefined when it
\* took no part in the match
DefaultGroup(s, b) ==
  IF WordEnd(s, DefaultNameStart(s, b)) > DefaultNameStart(s, b)
    THEN Defined(SubSeq(s, DefaultNameStart(s, b), WordEnd(s, DefaultNameStart(s, b)) - 1))
    ELSE undefined

\* the export name of a default export without one
anonymous == "anonymous"

\* defaultMatch[1] || 'anonymous'
DefaultName(group) ==
  IF group.defined /\ group.text # "" THEN group.text ELSE anonymous

\* content.match(defaultExportRegex): the first match in the text
defaultExportOf(s) ==
  IF \A i \in 1..Len(s) : DefaultEnd(s, i) = 0 THEN null
  ELSE String(DefaultName(DefaultGroup(s, DefaultEnd(s, Min({i \in 1..Len(s) : DefaultEnd(s, i) > 0})))))

analyzeExports(content) ==
  [exports |-> NamedExportsFrom(content, 1) \o GroupedExportsFrom(content, 1),
   defaultExport |-> defaultExportOf(content)]

\* ------------------------------------------------------------------------
\* The file analyzer: analyzeValidationUsage

HelperModule == "@/lib/validation"

\* from\s+['"]@\/lib\/validation['"] at f: the position after it, or 0
FromHelperEnd(s, f) ==
  IF /\ At(s, f, "from")
     /\ SkipSpace(s, f + 4) > f + 4
     /\ SkipSpace(s, f + 4) <= Len(s)
     /\ Ch(s, SkipSpace(s, f + 4)) \in Quotes
     /\ At(s, SkipSpace(s, f + 4) + 1, HelperModule)
     /\ SkipSpace(s, f + 4) + 1 + Len(HelperModule) <= Len(s)
     /\ Ch(s, SkipSpace(s, f + 4) + 1 + Len(HelperModule)) \in Quotes
    THEN SkipSpace(s, f + 4) + 2 + Len(HelperModule) ELSE 0

\* the places of "from" that import\s+.* reaches from a start at i: behind
\* the whitespace after import, on the line where that whitespace ends
HelperFromsAt(s, i) ==
  IF At(s, i, "import") /\ SkipSpace(s, i + 6) > i + 6
    THEN {f \in SkipSpace(s, i + 6)..Len(s) :
            DotsBetween(s, SkipSpace(s, i + 6), f) /\ FromHelperEnd(s, f) > 0}
    ELSE {}

\* validationImportRegex at i: the position after the match, or 0; the
\* greedy .* takes the last "from" it can
HelperImportEnd(s, i) ==
  IF HelperFromsAt(s, i) = {} THEN 0
  ELSE FromHelperEnd(s, CHOOSE f \in HelperFromsAt(s, i) :
                          \A g \in HelperFromsAt(s, i) : g <= f)

\* content.match(validationImportRegex) || []: the matches from lastIndex on
RECURSIVE HelperImportsFrom(_, _)
HelperImportsAt(s, i) ==
  <<SubSeq(s, i, HelperImportEnd(s, i) - 1)>>
    \o HelperImportsFrom(s, HelperImportEnd(s, i))

HelperImportsFrom(s, lastIndex) ==
  IF \A i \in lastIndex..Len(s) : HelperImportEnd(s, i) = 0 THEN <<>>
  ELSE HelperImportsAt(s, Min({i \in lastIndex..Len(s) : HelperImportEnd(s, i) > 0}))

\* Service\.([\w]+) at i: the position after the match, or 0
MethodEnd(s, i, service) ==
  IF /\ At(s, i, service \o ".")
     /\ WordEnd(s, i + Len(service) + 1) > i + Len(service) + 1
    THEN WordEnd(s, i + Len(service) + 1) ELSE 0

\* if (!methods.includes(match[1])) methods.push(match[1])
pushNew(methods, name) ==
  IF \E k \in 1..Len(methods) : methods[k] = name THEN methods
  ELSE Append(methods, name)

\* the loop of exec over the calls of a service, from lastIndex on
RECURSIVE MethodsFrom(_, _, _, _)
MethodsAt(s, i, service, methods) ==
  MethodsFrom(s, MethodEnd(s, i, service), service,
              pushNew(methods, SubSeq(s, i + Len(service) + 1,
                                      MethodEnd(s, i, service) - 1)))

MethodsFrom(s, lastIndex, service, methods) ==
  IF \A i \in lastIndex..Len(s) : MethodEnd(s, i, service) = 0 THEN methods
  ELSE MethodsAt(s, Min({i \in lastIndex..Len(s) : MethodEnd(s, i, service) > 0}),
                 service, methods)

\* the methods of a service, when the text has the name of the service
methodsOf(content, service) ==
  IF includes(content, service) THEN MethodsFrom(content, 1, service, <<>>)
  ELSE <<>>

InlinePatterns == {".test(", ".match(", ".replace("}

PotentialIssue == "Possibly contains inline validation/formatting that could be moved to centralized services"

potentialIssuesOf(content) ==
  IF \E pattern \in InlinePatterns : includes(content, pattern)
    THEN <<PotentialIssue>> ELSE <<>>

\* an analysis that takes the name of a service for its use
usageByToken(content, validationImports) ==
  [usesValidationService |-> includes(content, "ValidationService"),
   usesFormatterService |-> includes(content, "FormatterService"),
   validationImports |-> validationImports,
   validationMethods |-> methodsOf(content, "ValidationService"),
   formatterMethods |-> methodsOf(content, "FormatterService"),
   potentialIssues |-> potentialIssuesOf(content)]

\* the analysis, given the matches of the import pattern
usageOf(content, validationImports) ==
  IF Len(validationImports) > 0
    THEN [usesValidationService |-> includes(content, "ValidationService"),
          usesFormatterService |-> includes(content, "FormatterService"),
          validationImports |-> validationImports,
          validationMethods |-> methodsOf(content, "ValidationService"),
          formatterMethods |-> methodsOf(content, "FormatterService"),
          potentialIssues |-> potentialIssuesOf(content)]
    ELSE [usesValidationService |-> FALSE,
          usesFormatterService |-> FALSE,
          validationImports |-> <<>>,
          validationMethods |-> <<>>,
          formatterMethods |-> <<>>,
          potentialIssues |-> <<>>]

analyzeValidationUsage(content) == usageOf(content, HelperImportsFrom(content, 1))

\* ------------------------------------------------------------------------
\* Texts for the file analyzer: statements of a module, each with the
\* import declarations, the export identifiers and the default export that
\* the statement makes

Import(source, specifiers) == [source |-> source, specifiers |-> specifiers]

Statement(text, imports, exports, defaultExport) ==
  [text |-> text, imports |-> imports, exports |-> exports,
   defaultExport |-> defaultExport]

ImportStatements ==
  { Statement("import { useState, useEffect } from 'react'",
              <<Import("react", <<"useState", "useEffect">>)>>, <<>>, null),
    Statement("import { z,  } from \"zod\"",
              <<Import("zod", <<"z">>)>>, <<>>, null),
    Statement("import {\n  join,\n  relative\n} from 'path'",
              <<Import("path", <<"join", "relative">>)>>, <<>>, null),
    Statement("import fs from 'fs'",
              <<Import("fs", <<"fs (default)">>)>>, <<>>, null),
    Statement("import React from \"react\"",
              <<Import("react", <<"React (default)">>)>>, <<>>, null),
    Statement("import './styles.css'", <<>>, <<>>, null) }

ExportStatements ==
  { Statement("export const limit = 5", <<>>, <<"limit">>, null),
    Statement("export function load() {}", <<>>, <<"load">>, null),
    Statement("export interface Props {}", <<>>, <<"Props">>, null),
    Statement("export { load, limit }", <<>>, <<"load", "limit">>, null),
    Statement("export { limit, }", <<>>, <<"limit">>, null),
    Statement("export default function Main() {}", <<>>, <<>>, String("Main")),
    Statement("export default Main", <<>>, <<>>, String("Main")),
    Statement("export default function () {}", <<>>, <<>>, String(anonymous)),
    Statement("export default class extends Base {}", <<>>, <<>>, String(anonymous)),
    Statement("export default async function load() {}", <<>>, <<>>, String("load")) }

Statements == ImportStatements \cup ExportStatements

\* statements that import the helper module or name its services
UsageStatements ==
  { Statement("import { ValidationService } from '@/lib/validation'",
              <<Import(HelperModule, <<"ValidationService">>)>>, <<>>, null),
    Statement("import { FormatterService } from \"@/lib/validation\"",
              <<Import(HelperModule, <<"FormatterService">>)>>, <<>>, null),
    Statement("import {\n  ValidationService,\n  FormatterService\n} from '@/lib/validation'",
              <<Import(HelperModule, <<"ValidationService", "FormatterService">>)>>,
              <<>>, null),
    Statement("const ok = ValidationService.email(value)", <<>>, <<>>, null),
    Statement("if (ValidationService.email(a) && ValidationService.phone(b)) {}",
              <<>>, <<>>, null),
    Statement("const text = FormatterService.phone(value.replace(/x/, ''))",
              <<>>, <<>>, null),
    Statement("// ValidationService and FormatterService are not in use yet",
              <<>>, <<>>, null) }

MaxStatements == 2

DefaultExports(statements) ==
  {k \in 1..Len(statements) : statements[k].defaultExport # null}

\* the modules of at most MaxStatements statements, with at most one
\* default export
Programs ==
  {p \in UNION {[1..n -> Statements] : n \in 0..MaxStatements} :
     Cardinality(DefaultExports(p)) <= 1}

\* the texts of at most MaxStatements statements about the helper module
UsagePrograms == UNION {[1..n -> UsageStatements] : n \in 0..MaxStatements}

\* the text of a module: one statement after the other
RECURSIVE TextOf(_)
TextOf(statements) ==
  IF statements = <<>> THEN ""
  ELSE IF Len(statements) = 1 THEN statements[1].text
  ELSE statements[1].text \o "\n" \o TextOf(Tail(statements))

InitAnalyzer ==
  /\ fs = CHOOSE tree \in BareTrees : TRUE
  /\ args = [target |-> "", fix |-> FALSE]
  /\ pc = "idle"
  /\ files = <<>>
  /\ settled = {}
  /\ results = <<>>
  /\ summary = None
  /\ response = None
  /\ earlier = <<>>
  /\ expired = FALSE
  /\ request = None
  /\ reply = None
  /\ program \in Programs \cup UsagePrograms
  /\ analysis = None
  /\ asked = None
  /\ suggestion = None
  /\ matching = None
  /\ scans = <<>>

\* case 'imports' of the analysis
AnalyzeImports ==
  /\ analysis = None
  /\ analysis' = [of |-> "imports", imports |-> analyzeImports(TextOf(program))]
  /\ UNCHANGED <<scanner, dispatch, program, advisor, concurrent>>

\* case 'exports' of the analysis
AnalyzeExports ==
  /\ analysis = None
  /\ analysis' = [of |-> "exports", exports |-> analyzeExports(TextOf(program))]
  /\ UNCHANGED <<scanner, dispatch, program, advisor, concurrent>>

\* case 'validation' of the analysis
AnalyzeValidation ==
  /\ analysis = None
  /\ analysis' = [of |-> "validation",
                  validation |-> analyzeValidationUsage(TextOf(program))]
  /\ UNCHANGED <<scanner, dispatch, program, advisor, concurrent>>

NextAnalyzer ==
  \/ AnalyzeImports
  \/ AnalyzeExports
  \/ AnalyzeValidation

SpecAnalyzer == InitAnalyzer /\ [][NextAnalyzer]_vars

\* the import declarations of a module in the order of its text
RECURSIVE ImportsInTextOrder(_)
ImportsInTextOrder(statements) ==
  IF statements = <<>> THEN <<>>
  ELSE statements[1].imports \o ImportsInTextOrder(Tail(statements))

\* C17 as stated: analyzeImports returns the import declarations in the
\* order they occur in the text, one entry per grouped named import with its
\* specifiers trimmed and the empty ones dropped, and one per single default
\* import with the suffix ' (default)'.
C17_ImportsInTextOrder ==
  (analysis # None /\ analysis.of = "imports") =>
    analysis.imports.imports = ImportsInTextOrder(program)

\* the export identifiers of a module as found in its text
RECURSIVE ExportsFound(_)
ExportsFound(statements) ==
  IF statements = <<>> THEN <<>>
  ELSE statements[1].exports \o ExportsFound(Tail(statements))

Occurrences(list, name) == Cardinality({k \in 1..Len(list) : list[k] = name})

\* the same names, each as many times
SameNames(a, b) ==
  /\ Len(a) = Len(b)
  /\ \A k \in 1..Len(a) : Occurrences(a, a[k]) = Occurrences(b, a[k])

\* the default export that a module makes
DefaultExportMade(statements) ==
  IF DefaultExports(statements) = {} THEN null
  ELSE statements[Min(DefaultExports(statements))].defaultExport

\* C18 as stated: analyzeExports returns the export identifiers of the named
\* declarations and of the grouped export statements, blank names dropped
\* and duplicates kept; defaultExport is null without a default export, the
\* exported name when it is named and 'anonymous' when it is unnamed.
C18_ExportsAndDefault ==
  (analysis # None /\ analysis.of = "exports") =>
    /\ SameNames(analysis.exports.exports, ExportsFound(program))
    /\ analysis.exports.defaultExport = DefaultExportMade(program)

\* ------------------------------------------------------------------------
\* The issues of one file

\* the entries an Issue is pushed for, on the sample texts, computed once
PushedOfSample == [text \in SampleTexts |-> PushedEntries(text)]

\* the matched substring that issue n of the file at position k stands for
MatchedBy(k, n) == PushedOfSample[ContentOf(k)][n].match.text

\* the 1-based numbers of the lines of the text that contain the substring
LinesWith(text, substring) ==
  {i \in 1..Len(split(text)) : includes(split(text)[i], substring)}

\* the file at position k has been analysed
Analysed(k) ==
  /\ k \in settled
  /\ k \in 1..Len(results)
  /\ "issues" \in DOMAIN results[k]

Raising(k) ==
  {n \in 1..Len(PushedOfSample[ContentOf(k)]) :
     SuggestionThrows(PushedOfSample[ContentOf(k)][n].match)}

\* the detectors of the file at position k whose evaluation raises
RaisingDetectors(k) == {PushedOfSample[ContentOf(k)][n].issue : n \in Raising(k)}

\* the entries of the file at position k that the other detectors found
FoundByOthers(k) ==
  {n \in 1..Len(PushedOfSample[ContentOf(k)]) :
     PushedOfSample[ContentOf(k)][n].issue \notin RaisingDetectors(k)}

\* C22 as stated: when the evaluation of one detector raises for a file that
\* was read, the file is not turned into an error entry and the result has
\* the Issues of the other detectors.
C22_FailedDetectorSkipped ==
  \A k \in 1..Len(results) :
    (k \in settled /\ readFile(fs, files[k]).readable /\ Raising(k) # {}) =>
      /\ "error" \notin DOMAIN results[k]
      /\ "issues" \in DOMAIN results[k]
      /\ Len(results[k].issues) >= Cardinality(FoundByOthers(k))

\* ------------------------------------------------------------------------
\* getSuggestion on its own

\* matched texts: of each branch, and of two branches at once
MatchedTexts ==
  { ".test(/a/)", "s.match(/x/)", ".test(s.match(/a/))", "x.trim().test(/a/)",
    "s.replace(a).match(/b/)", ".trim(", "trim", "replace", ".replaceAll(",
    ".substring(", "substr", ".slice(", ".toLowerCase(", "new RegExp(",
    "email is valid", "=> {" }

Calls ==
  [match : MatchedTexts, issue : 1..Len(VALIDATION_ISSUES),
   usesValidationService : BOOLEAN, usesFormatterService : BOOLEAN]

InitSuggestion ==
  /\ fs = CHOOSE tree \in BareTrees : TRUE
  /\ args = [target |-> "", fix |-> FALSE]
  /\ pc = "idle"
  /\ files = <<>>
  /\ settled = {}
  /\ results = <<>>
  /\ summary = None
  /\ response = None
  /\ earlier = <<>>
  /\ expired = FALSE
  /\ request = None
  /\ reply = None
  /\ program = <<>>
  /\ analysis = None
  /\ asked \in Calls
  /\ suggestion = None
  /\ matching = None
  /\ scans = <<>>

\* the call returns
Suggest ==
  /\ asked # None
  /\ suggestion = None
  /\ suggestion' = [returned |->
                      getSuggestion(Defined(asked.match),
                                    VALIDATION_ISSUES[asked.issue],
                                    asked.usesValidationService,
                                    asked.usesFormatterService)]
  /\ UNCHANGED <<scanner, dispatch, analyzer, asked, concurrent>>

NextSuggestion == Suggest

SpecSuggestion == InitSuggestion /\ [][NextSuggestion]_vars

\* the branch of the priority that a matched text falls in
BranchOf(text) ==
  IF includes(text, ".test(") THEN "tests"
  ELSE IF includes(text, ".match(") THEN "matching"
  ELSE IF \E word \in {"trim", "replace", "substring"} : includes(text, word)
    THEN "formatting"
  ELSE "generic"

\* C23: the suggestion depends on the matched text and the two flags alone
\* and follows the priority: '.test(' gives the validator suggestion for
\* regex tests; else '.match(' the one for regex matching; else 'trim',
\* 'replace' or 'substring' the FormatterService suggestion; else a generic
\* suggestion that names ValidationService exactly when the file does not
\* use it and FormatterService exactly when the file does not use it.
C23_SuggestionPriority ==
  suggestion # None =>
    CASE BranchOf(asked.match) = "tests" ->
           suggestion.returned = "Use ValidationService.createValidator() or a specific validator from @/lib/validation instead of regex tests"
      [] BranchOf(asked.match) = "matching" ->
           suggestion.returned = "Use ValidationService.createValidator() or a specific validator from @/lib/validation instead of regex matching"
      [] BranchOf(asked.match) = "formatting" ->
           suggestion.returned = "Consider using FormatterService.formatValue() for consistent string formatting"
      [] BranchOf(asked.match) = "generic" ->
           /\ includes(suggestion.returned, "ValidationService") <=> ~asked.usesValidationService
           /\ includes(suggestion.returned, "FormatterService") <=> ~asked.usesFormatterService
           /\ ~includes(suggestion.returned, "createValidator")
           /\ ~includes(suggestion.returned, "formatValue")

\* a matched text with a string method and a regex test: the test wins, and
\* the flags of the file play no part
C23_Witness ==
  /\ suggestion # None
  /\ asked.match = "x.trim().test(/a/)"
  /\ asked.usesValidationService
  /\ asked.usesFormatterService
  /\ includes(suggestion.returned, "instead of regex tests")

\* ------------------------------------------------------------------------
\* The use of the helper services

\* the text matches the import pattern of the helper module somewhere
ImportsHelper(text) == \E i \in 1..Len(text) : HelperImportEnd(text, i) > 0

\* the analysis of the use of the helper services has returned
UsageAnalysed == analysis # None /\ analysis.of = "validation"

\* C24: usesValidationService is true exactly when the text matches the
\* import pattern of '@/lib/validation' and has the token ValidationService,
\* and likewise usesFormatterService; when the import pattern does not
\* match, both flags are false and the method lists and potentialIssues are
\* empty, whatever tokens the text has.
C24_UsageGatedByImport ==
  UsageAnalysed =>
    /\ analysis.validation.usesValidationService
         <=> (ImportsHelper(TextOf(program))
                /\ includes(TextOf(program), "ValidationService"))
    /\ analysis.validation.usesFormatterService
         <=> (ImportsHelper(TextOf(program))
                /\ includes(TextOf(program), "FormatterService"))
    /\ ~ImportsHelper(TextOf(program)) =>
         /\ analysis.validation.validationMethods = <<>>
         /\ analysis.validation.formatterMethods = <<>>
         /\ analysis.validation.potentialIssues = <<>>

\* a text that calls a service and replaces with a regex, and does not
\* import the helper module
C24_Witness ==
  /\ UsageAnalysed
  /\ ~ImportsHelper(TextOf(program))
  /\ includes(TextOf(program), "FormatterService.phone(")
  /\ includes(TextOf(program), ".replace(")
  /\ includes(TextOf(program), "ValidationService")
  /\ ~analysis.validation.usesFormatterService
  /\ ~analysis.validation.usesValidationService
  /\ analysis.validation.formatterMethods = <<>>

\* C25 as stated: in the result of checkFile a usage flag is true only if
\* the text of the file matches the import pattern of the helper module and
\* has the token of the service.
C25_ReportFlagsGated ==
  \A k \in 1..Len(results) :
    Analysed(k) =>
      /\ results[k].usesValidationService =>
           (ImportsHelper(ContentOf(k)) /\ includes(ContentOf(k), "ValidationService"))
      /\ results[k].usesFormatterService =>
           (ImportsHelper(ContentOf(k)) /\ includes(ContentOf(k), "FormatterService"))

\* the positions in files of the file that an entry of detail stands for
FilesOfDetail(entry) ==
  {k \in 1..Len(files) : relative(projectRoot, files[k]) = entry.path}

\* C26: the suggested import of a file's detail is not null only when the
\* file has at least one issue and its text does not have '@/lib/validation';
\* for a file with issues whose text has it, the suggested import is null.
C26_SuggestedImportOnlyWhenMissing ==
  Reported =>
    \A j \in 1..Len(summary.detail) :
      /\ FilesOfDetail(summary.detail[j]) # {}
      /\ \A k \in FilesOfDetail(summary.detail[j]) :
           /\ ~summary.detail[j].suggestedFix.isNull =>
                /\ Len(summary.detail[j].issues) >= 1
                /\ ~includes(ContentOf(k), "@/lib/validation")
           /\ (Len(summary.detail[j].issues) >= 1
                 /\ includes(ContentOf(k), "@/lib/validation")) =>
                summary.detail[j].suggestedFix.isNull

\* the report of a file with two issues that imports the helper module
C26_Witness ==
  /\ Reported
  /\ Len(files) = 1
  /\ includes(ContentOf(1), "from '@/lib/validation'")
  /\ Len(summary.detail) = 1
  /\ Len(summary.detail[1].issues) = 2
  /\ summary.detail[1].suggestedFix.isNull

\* the fields of the two kinds of result
ErrorFields == {"path", "error"}
AnalysisFields ==
  {"path", "usesValidationImport", "usesValidationService",
   "usesFormatterService", "issueCount", "issues", "suggestedFix"}

\* C28: every result of checkFile is either a complete analysis of the text
\* that was read, with the usage flags, the issues and their count, or an
\* error entry with path and error and nothing else; no result has an error
\* beside a list of issues, and a file whose read failed gives no Issue to
\* the report.
C28_CompleteOrError ==
  /\ \A k \in 1..Len(results) :
       k \in settled =>
         /\ results[k].path = files[k]
         /\ \/ DOMAIN results[k] = ErrorFields
            \/ /\ DOMAIN results[k] = AnalysisFields
               /\ k \notin ReadFailed
               /\ results[k].issueCount = Len(results[k].issues)
               /\ Len(results[k].issues) = Len(PushedOfSample[ContentOf(k)])
               /\ results[k].usesValidationImport
                    = includes(ContentOf(k), "@/lib/validation")
         /\ k \in ReadFailed => DOMAIN results[k] = ErrorFields
  /\ Reported =>
       \A k \in ReadFailed :
         \A j \in 1..Len(summary.detail) :
           summary.detail[j].path # relative(projectRoot, files[k])

\* a report of issues of a tree where the read of one file failed and the
\* analysis of another raised nothing
C28_Witness ==
  /\ Reported
  /\ ReadFailed # {}
  /\ summary.totalIssues > 0
  /\ \E k \in 1..Len(results) : DOMAIN results[k] = AnalysisFields
                                  /\ results[k].issueCount > 0
  /\ \E k \in ReadFailed : DOMAIN results[k] = ErrorFields

\* the capture groups of a pattern: its parentheses that open a group
captureGroupsOf(pattern) ==
  Cardinality({i \in 2..Len(pattern) :
                 Ch(pattern, i) = "(" /\ Ch(pattern, i - 1) # "\\"})

\* the entries of detector d among those an Issue is pushed for
PushedBy(text, d) ==
  {n \in 1..Len(PushedOfSample[text]) : PushedOfSample[text][n].issue = d}

\* C29: the Issues of a detector for a file come from the first match of
\* its pattern alone, the matched text and the text of each capture group:
\* they are at most 1 plus the number of capture groups of the pattern,
\* however many lines of the file the detector matches.
C29_AtMostFirstMatchAndGroups ==
  \A k \in 1..Len(results) :
    Analysed(k) =>
      \A d \in 1..Len(VALIDATION_ISSUES) :
        /\ Cardinality(IssuesOfPattern(results[k], VALIDATION_ISSUES[d].pattern))
             <= 1 + captureGroupsOf(VALIDATION_ISSUES[d].pattern)
        /\ Cardinality(IssuesOfPattern(results[k], VALIDATION_ISSUES[d].pattern))
             = Cardinality(PushedBy(ContentOf(k), d))

\* three lines that the .test() detector matches, and one Issue
C29_Witness ==
  \E k \in 1..Len(results) :
    /\ Analysed(k)
    /\ ContentOf(k) = "a.test(/x/)\nb.test(/y/)\nc.test(/z/)\n"
    /\ Cardinality(DistinctMatches(ContentOf(k), 2)) = 3
    /\ Cardinality(IssuesOfPattern(results[k], PatternTest)) = 1
    /\ results[k].issues[1].line = 1

\* ------------------------------------------------------------------------
\* The detectors as state that the invocations of one process share: every
\* pattern is one RegExp object with a lastIndex

\* the lastIndex of a pattern that no search has moved
Unmoved == [d \in 1..Len(VALIDATION_ISSUES) |-> 0]

\* the place of the first occurrence of w in s, 0-based
indexOf(s, w) == Min({i \in 1..(Len(s) + 1) : i > Len(s) \/ At(s, i, w)}) - 1

\* pattern.exec(content) of a pattern with the g flag: the search starts at
\* lastIndex and leaves lastIndex behind the match, or at 0 without a match
execGlobal(content, pattern, last) ==
  IF match(SubSeq(content, last + 1, Len(content)), pattern) = <<>>
    THEN [matches |-> <<>>, lastIndex |-> 0]
    ELSE [matches |-> match(SubSeq(content, last + 1, Len(content)), pattern),
          lastIndex |->
            last
              + indexOf(SubSeq(content, last + 1, Len(content)),
                        match(SubSeq(content, last + 1, Len(content)), pattern)[1].text)
              + Len(match(SubSeq(content, last + 1, Len(content)), pattern)[1].text)]

\* content.match(pattern) of a pattern without the g and y flags: the
\* search starts at 0 whatever lastIndex holds, and lastIndex is not written
evaluate(content, pattern, last) ==
  [matches |-> match(content, pattern), lastIndex |-> last]

\* the entries of the detectors from d on, each pattern at its lastIndex
RECURSIVE MatchEntriesAt(_, _, _)
MatchEntriesAt(content, d, state) ==
  IF d > Len(VALIDATION_ISSUES) THEN <<>>
  ELSE EntriesOf(d, evaluate(content, VALIDATION_ISSUES[d].pattern, state[d]).matches)
         \o MatchEntriesAt(content, d + 1, state)

PushedEntriesAt(content, state) ==
  FoundEntries(content, MatchEntriesAt(content, 1, state))

\* the detectors the loop reaches, given the entries an Issue is pushed
\* for: those before the first one that raises
Reached(pushed) ==
  {d \in 1..Len(VALIDATION_ISSUES) :
     \A n \in 1..Len(pushed) :
       SuggestionThrows(pushed[n].match) => pushed[n].issue >= d}

\* the lastIndex of every pattern after the loop over the detectors
stateAfter(content, state) ==
  [d \in 1..Len(VALIDATION_ISSUES) |->
     IF d \in Reached(PushedEntriesAt(content, state))
       THEN evaluate(content, VALIDATION_ISSUES[d].pattern, state[d]).lastIndex
       ELSE state[d]]

\* the body of the try block, the patterns being in the given state
analyzeAt(content, state) ==
  Checked(content,
          includes(content, "@/lib/validation"),
          includes(content, "ValidationService"),
          includes(content, "FormatterService"),
          PushedEntriesAt(content, state))

\* both are functions of the text and the state of the patterns: their
\* values on the sample texts with unmoved patterns, computed once
AnalysisUnmoved == [text \in SampleTexts |-> analyzeAt(text, Unmoved)]
StateAfterUnmoved == [text \in SampleTexts |-> stateAfter(text, Unmoved)]

analysisAt(content, state) ==
  IF content \in SampleTexts /\ state = Unmoved
    THEN AnalysisUnmoved[content] ELSE analyzeAt(content, state)

checkFileAt(filePath, file, state) ==
  IF ~file.readable THEN ErrorEntry(filePath, file.error)
  ELSE resultOf(filePath, analysisAt(file.content, state))

\* the patterns after checkFile: a file that cannot be read moves none
matchingAfter(file, state) ==
  IF ~file.readable THEN state
  ELSE IF file.content \in SampleTexts /\ state = Unmoved
    THEN StateAfterUnmoved[file.content]
  ELSE stateAfter(file.content, state)

\* ------------------------------------------------------------------------
\* Invocations side by side: each awaits its reads on its own, and the body
\* of a checkFile after its read runs without a break

\* the invocations that run at one time
MaxScans == 2

\* two components of any kind
SharedTrees ==
  { Components(kinds) \o OtherFiles : kinds \in [1..2 -> FileKinds] }

SharedTargets == {"", "src/components/Field2.jsx", "src/missing"}

\* an invocation that has not begun
Called(given) ==
  [args |-> given, pc |-> "idle", files |-> <<>>, settled |-> {},
   results |-> <<>>, response |-> None]

InitShared ==
  /\ fs \in SharedTrees
  /\ args = [target |-> "", fix |-> FALSE]
  /\ pc = "idle"
  /\ files = <<>>
  /\ settled = {}
  /\ results = <<>>
  /\ summary = None
  /\ response = None
  /\ earlier = <<>>
  /\ expired = FALSE
  /\ request = None
  /\ reply = None
  /\ program = <<>>
  /\ analysis = None
  /\ asked = None
  /\ suggestion = None
  /\ matching = Unmoved
  /\ scans \in [1..MaxScans -> {Called([target |-> t, fix |-> FALSE]) : t \in SharedTargets}]

\* lines 130-161 of invocation i
begin(tree, scan) ==
  IF TargetFound(tree, scan.args)
    THEN [scan EXCEPT !.files = selectFiles(tree, scan.args),
                      !.results = [k \in 1..Len(selectFiles(tree, scan.args)) |-> Pending],
                      !.pc = "checking"]
    ELSE [scan EXCEPT !.response = TargetNotFound(scan.args), !.pc = "returned"]

ScanStarts ==
  /\ \E i \in 1..MaxScans :
       /\ scans[i].pc = "idle"
       /\ scans' = [scans EXCEPT ![i] = begin(fs, scans[i])]
  /\ UNCHANGED <<scanner, dispatch, analyzer, advisor, matching>>

\* the checkFile of file k of an invocation ends
settle(tree, scan, k, state) ==
  [scan EXCEPT !.settled = scan.settled \cup {k},
               !.results = collect(scan.results, k,
                                   checkFileAt(scan.files[k],
                                               readFile(tree, scan.files[k]), state))]

ScanChecks ==
  /\ \E i \in 1..MaxScans :
       /\ scans[i].pc = "checking"
       /\ \E k \in 1..Len(scans[i].files) :
            /\ k \notin scans[i].settled
            /\ scans' = [scans EXCEPT ![i] = settle(fs, scans[i], k, matching)]
            /\ matching' = matchingAfter(readFile(fs, scans[i].files[k]), matching)
  /\ UNCHANGED <<scanner, dispatch, analyzer, advisor>>

\* lines 163-195 of an invocation
finish(scan) ==
  [scan EXCEPT !.response = TextBlock(stringify(summarize(scan.files, scan.results))),
               !.pc = "returned"]

ScanReturns ==
  /\ \E i \in 1..MaxScans :
       /\ scans[i].pc = "checking"
       /\ scans[i].settled = 1..Len(scans[i].files)
       /\ scans' = [scans EXCEPT ![i] = finish(scans[i])]
  /\ UNCHANGED <<scanner, dispatch, analyzer, advisor, matching>>

NextShared ==
  \/ ScanStarts
  \/ ScanChecks
  \/ ScanReturns

SpecShared == InitShared /\ [][NextShared]_vars

\* the results of the files of a list, each checked on its own
ResultsAlone(tree, list) ==
  [k \in 1..Len(list) |-> checkFile(list[k], readFile(tree, list[k]))]

\* what an invocation returns when no other runs beside it
ResponseAlone(tree, given) ==
  IF TargetFound(tree, given)
    THEN TextBlock(stringify(summarize(selectFiles(tree, given),
                                       ResultsAlone(tree, selectFiles(tree, given)))))
    ELSE TargetNotFound(given)

\* C27: no scan changes the detectors, the lastIndex of their patterns
\* included, so each of the invocations whose checks of files are
\* interleaved returns the report it returns when it runs alone.
C27_DetectorsReadOnly ==
  /\ matching = Unmoved
  /\ \A i \in 1..MaxScans :
       scans[i].pc = "returned" => scans[i].response = ResponseAlone(fs, scans[i].args)

\* an invocation has returned a report of several lines while another has
\* checked one of its two files
C27_Witness ==
  \E i, j \in 1..MaxScans :
    /\ i # j
    /\ scans[i].pc = "checking"
    /\ Len(scans[i].files) = 2
    /\ Cardinality(scans[i].settled) = 1
    /\ scans[j].pc = "returned"
    /\ Len(scans[j].files) = 2
    /\ \E k \in 1..2 : "issueCount" \in DOMAIN scans[j].results[k]
                         /\ scans[j].results[k].issueCount > 0
    /\ scans[j].response = ResponseAlone(fs, scans[j].args)
====
